---- MODULE Spec2Model ----
(***************************************************************************)
(* Tile streaming cache of src/systems/tiles.rs: the demand scheduler      *)
(* (process_tiles), the application stage (apply_pending_tiles), recency   *)
(* (update_visible_tiles), eviction (cleanup_old_tiles), the zoom          *)
(* controller (auto_detect_zoom_level) and the completion of the fetch     *)
(* tasks they spawn.                                                       *)
(*                                                                         *)
(* The frame clock (now, delta) and the stamps taken from it (last_used)   *)
(* are in integer milliseconds; the systems see them as the f32 seconds     *)
(* Secs(ms) and compute with f32 arithmetic. Heights and world coordinates  *)
(* are integers; a tile key is <<x, y, zoom>>.                              *)
(***************************************************************************)
EXTENDS Integers, Sequences, FiniteSets, TLC

VARIABLES
    loaded_tiles,       \* OSMData.loaded_tiles: Vec<(x, y, zoom)>
    pending_tiles,      \* OSMData.pending_tiles: Mutex<Vec<(x, y, zoom, Option<image>)>>
    tiles,              \* OSMData.tiles: Vec<(x, y, zoom, entity)>
    coords,             \* entity -> TileCoords (+ has PersistentIsland component)
    current_zoom,       \* OSMData.current_zoom
    total_time,         \* OSMData.total_time: f32 seconds, [m, e]
    height_thresholds,  \* OSMData.height_thresholds: Vec<(min_height, zoom)>
    persistent_islands, \* OSMData.persistent_islands keys, in the map's iteration order
    inflight,           \* fetch tasks spawned on the runtime and not yet completed
    camera,             \* the Camera3d transform this frame (or none)
    now,                \* Time::elapsed (ms); elapsed_secs() is Secs(now)
    delta,              \* Time::delta (ms); delta_secs() is Secs(delta)
    order,              \* the schedule: the order in which the systems run each frame
    ran,                \* how many systems of the schedule already ran this frame
    frame,              \* number of frames started
    obs                 \* what the last step did (dispatches, removals, ...)

vars == <<loaded_tiles, pending_tiles, tiles, coords, current_zoom, total_time,
          height_thresholds, persistent_islands, inflight, camera, now, delta,
          order, ran, frame, obs>>

-----------------------------------------------------------------------------
(* Program constants *)

\* crate::resources::constants (outside this file); "zoom level 17" in the comments
PERSISTENT_ISLAND_ZOOM_LEVEL == 17
MIN_ZOOM_LEVEL == 1
MAX_ZOOM_LEVEL == 19

TILE_TIMEOUT == 45000
PERSISTENT_ISLAND_TIMEOUT == 180000
CLEANUP_PERIOD == 5000
CLEANUP_TOLERANCE == 50
ISLAND_VISIBLE_DISTANCE == 50
TILE_VISIBLE_DISTANCE == 30
HYSTERESIS_BUFFER == 1
ZOOM_IN_GUARD == 3
PRELOAD_RANGE == 2

-----------------------------------------------------------------------------
(* Integer helpers *)

Abs(n) == IF n < 0 THEN -n ELSE n

Pow2(n) == IF n <= 0 THEN 1 ELSE 2^n

\* x >> n and x << n on u32. A tile index at zoom z is below 2^z and the
\* shifts are by zoom differences, so no bit is shifted out of the 32.
\* variant: the right shift rounds up instead of down
Shr_RoundUp(x, n) == (x + Pow2(n) - 1) \div Pow2(n)
Shr(x, n) == x \div Pow2(n)
Shl(x, n) == x * Pow2(n)

Clamp(v, lo, hi) == IF v < lo THEN lo ELSE IF v > hi THEN hi ELSE v

Max(a, b) == IF a >= b THEN a ELSE b

InSeq(e, s) == \E i \in 1..Len(s) : s[i] = e

\* the element of a set of one element; {f(x) : x \in {e}} computes e once
\* and f of its value
Only(S) == CHOOSE v \in S : TRUE

RECURSIVE Concat(_, _)
\* s[1] \o s[2] \o ... for a sequence of sequences, from index i
Concat(ss, i) == IF i > Len(ss) THEN <<>> ELSE ss[i] \o Concat(ss, i + 1)

Key(x, y, z) == <<x, y, z>>

-----------------------------------------------------------------------------
(* f32 arithmetic. A value is [m |-> mantissa, e |-> exponent], m * 2^e,    *)
(* with 2^23 <= |m| < 2^24, or m = 0 and e = 0. The results are rounded to  *)
(* nearest, ties to even, as the hardware does. The times of the program    *)
(* lie between a millisecond and a few hundred seconds, far from the        *)
(* subnormal and the infinite range.                                        *)

F32_MIN_MANTISSA == Pow2(23)
F32_MAX_MANTISSA == Pow2(24)

F32Zero == [m |-> 0, e |-> 0]

F32Neg(a) == [m |-> -a.m, e |-> a.e]

\* the number of low bits to drop so that n < 2^24, for n < 2^31
F32Excess(n) ==
    IF n < 16777216 THEN 0
    ELSE IF n < 33554432 THEN 1
    ELSE IF n < 67108864 THEN 2
    ELSE IF n < 134217728 THEN 3
    ELSE IF n < 268435456 THEN 4
    ELSE IF n < 536870912 THEN 5
    ELSE IF n < 1073741824 THEN 6
    ELSE 7

\* the number of bits 0 < n < 2^24 is short of 24
F32Short(n) ==
    IF n < 4096
    THEN IF n < 64
         THEN IF n < 8
              THEN IF n < 4
                   THEN IF n < 2
                        THEN 23
                        ELSE 22
                   ELSE 21
              ELSE IF n < 32
                   THEN IF n < 16
                        THEN 20
                        ELSE 19
                   ELSE 18
         ELSE IF n < 512
              THEN IF n < 256
                   THEN IF n < 128
                        THEN 17
                        ELSE 16
                   ELSE 15
              ELSE IF n < 2048
                   THEN IF n < 1024
                        THEN 14
                        ELSE 13
                   ELSE 12
    ELSE IF n < 262144
         THEN IF n < 32768
              THEN IF n < 16384
                   THEN IF n < 8192
                        THEN 11
                        ELSE 10
                   ELSE 9
              ELSE IF n < 131072
                   THEN IF n < 65536
                        THEN 8
                        ELSE 7
                   ELSE 6
         ELSE IF n < 2097152
              THEN IF n < 1048576
                   THEN IF n < 524288
                        THEN 5
                        ELSE 4
                   ELSE 3
              ELSE IF n < 8388608
                   THEN IF n < 4194304
                        THEN 2
                        ELSE 1
                   ELSE 0

\* n * 2^e for 0 < n < 2^24, normalised (exact): shifted left until the
\* mantissa has 24 bits
F32Up(n, e) == [m |-> n * Pow2(F32Short(n)), e |-> e - F32Short(n)]

\* n * 2^e for n >= 0, rounded to 24 bits
F32Round(n, e) ==
    IF n = 0 THEN F32Zero
    ELSE IF n < F32_MAX_MANTISSA THEN F32Up(n, e)
    ELSE LET k == F32Excess(n)
             q == n \div Pow2(k)
             r == n % Pow2(k)
             half == Pow2(k - 1)
             up == r > half \/ (r = half /\ q % 2 = 1)
             m == IF up THEN q + 1 ELSE q
         IN  IF m = F32_MAX_MANTISSA THEN [m |-> F32_MIN_MANTISSA, e |-> e + k + 1]
             ELSE [m |-> m, e |-> e + k]

\* n * 2^e for any integer n
F32Of(n, e) == IF n < 0 THEN F32Neg(F32Round(-n, e)) ELSE F32Round(n, e)

\* a + b. Exponents up to 6 apart are added exactly; further apart, the small
\* operand is cut to four bits below the large one's last, the bits cut off
\* kept as a sticky last bit; 26 or more apart it is below a quarter of the
\* last bit and the large operand is the result.
F32Add(a, b) ==
    IF a.m = 0 THEN b
    ELSE IF b.m = 0 THEN a
    ELSE LET hi == IF a.e >= b.e THEN a ELSE b
             lo == IF a.e >= b.e THEN b ELSE a
             d == hi.e - lo.e
         IN  IF d >= 26 THEN hi
             ELSE IF d <= 6 THEN F32Of(hi.m * Pow2(d) + lo.m, lo.e)
             ELSE LET q == Abs(lo.m) \div Pow2(d - 4)
                      sticky == Abs(lo.m) % Pow2(d - 4) # 0
                      cut == IF sticky /\ q % 2 = 0 THEN q + 1 ELSE q
                  IN  F32Of(hi.m * 16 + (IF lo.m < 0 THEN -cut ELSE cut), hi.e - 4)

F32Sub(a, b) == F32Add(a, F32Neg(b))

\* the whole part of a >= 0
F32Floor(a) ==
    IF a.e >= 0 THEN a.m * Pow2(a.e)
    ELSE IF a.e <= -24 THEN 0
    ELSE a.m \div Pow2(-a.e)

\* a > b: the sign of a rounded difference is the sign of the difference
F32Gt(a, b) == F32Sub(a, b).m > 0

RECURSIVE F32ShiftMod(_, _, _)
\* (r * 2^d) mod m
F32ShiftMod(r, d, m) == IF d = 0 THEN r ELSE F32ShiftMod((2 * r) % m, d - 1, m)

\* a % b for a >= 0 and b > 0 (fmod: the remainder is exact)
F32Rem(a, b) ==
    IF ~F32Gt(a, b) /\ a # b THEN a
    ELSE F32Round(F32ShiftMod(a.m % b.m, a.e - b.e, b.m), b.e)

RECURSIVE F32Divide(_, _, _)
\* (q + r / 1000) * 2^e, q < 2^24, rounded to 24 bits
F32Divide(q, r, e) ==
    IF q < F32_MIN_MANTISSA
    THEN F32Divide(2 * q + (2 * r) \div 1000, (2 * r) % 1000, e - 1)
    ELSE LET up == 2 * r > 1000 \/ (2 * r = 1000 /\ q % 2 = 1)
             m == IF up THEN q + 1 ELSE q
         IN  IF m = F32_MAX_MANTISSA THEN [m |-> F32_MIN_MANTISSA, e |-> e + 1]
             ELSE [m |-> m, e |-> e]

\* the f32 nearest to ms / 1000: what a literal of the source (5.0, 0.05,
\* 45.0, 180.0) is compiled to
F32Literal(ms) ==
    IF ms = 0 THEN F32Zero ELSE F32Divide(ms \div 1000, ms % 1000, 0)

RECURSIVE F32DivBits(_, _, _, _)
\* long division: q holds the quotient bits found so far, r < d the remainder;
\* seven bits at a time while they fit, then bit by bit
F32DivBits(q, r, d, e) ==
    IF q < 65536
    THEN F32DivBits(128 * q + (128 * r) \div d, (128 * r) % d, d, e - 7)
    ELSE IF q < F32_MIN_MANTISSA
    THEN F32DivBits(2 * q + (IF 2 * r >= d THEN 1 ELSE 0),
                    IF 2 * r >= d THEN 2 * r - d ELSE 2 * r, d, e - 1)
    ELSE LET up == 2 * r > d \/ (2 * r = d /\ q % 2 = 1)
             m == IF up THEN q + 1 ELSE q
         IN  IF m = F32_MAX_MANTISSA THEN [m |-> F32_MIN_MANTISSA, e |-> e + 1]
             ELSE [m |-> m, e |-> e]

\* a / b for a >= 0 and b > 0
F32Div(a, b) ==
    IF a.m = 0 THEN F32Zero
    ELSE IF a.m >= b.m THEN F32DivBits(1, a.m - b.m, b.m, a.e - b.e)
    ELSE F32DivBits(1, 2 * a.m - b.m, b.m, a.e - b.e - 1)

\* a * b: the 48-bit product of the mantissas, in 12-bit halves, rounded to
\* 24 bits
F32Mul(a, b) ==
    IF a.m = 0 \/ b.m = 0 THEN F32Zero
    ELSE LET ah == Abs(a.m) \div 4096
             al == Abs(a.m) % 4096
             bh == Abs(b.m) \div 4096
             bl == Abs(b.m) % 4096
             mid == ah * bl + al * bh
             t == al * bl + (mid % 4096) * 4096
             low == t % F32_MAX_MANTISSA
             hi == ah * bh + mid \div 4096 + t \div F32_MAX_MANTISSA
             big == hi >= F32_MIN_MANTISSA
             q == IF big THEN hi ELSE 2 * hi + low \div F32_MIN_MANTISSA
             r == IF big THEN low ELSE low % F32_MIN_MANTISSA
             half == IF big THEN F32_MIN_MANTISSA ELSE F32_MIN_MANTISSA \div 2
             up == r > half \/ (r = half /\ q % 2 = 1)
             m == IF up THEN q + 1 ELSE q
             e == a.e + b.e + (IF big THEN 24 ELSE 23)
             p == IF m = F32_MAX_MANTISSA THEN [m |-> F32_MIN_MANTISSA, e |-> e + 1]
                  ELSE [m |-> m, e |-> e]
         IN  IF (a.m < 0) # (b.m < 0) THEN F32Neg(p) ELSE p

\* one step of the square root by halves: from the root and remainder sr of
\* the upper half of a number, the root and remainder of the number, whose
\* lower half is a1 * beta + a0 (a1, a0 < beta); the upper half is at least a
\* quarter of its range, so one correction is enough
F32SqrtStep(sr, a1, a0, beta) ==
    LET n == sr[2] * beta + a1
        q == n \div (2 * sr[1])
        u == n % (2 * sr[1])
        r == u * beta + a0 - q * q
        root == sr[1] * beta + q
    IN  IF r < 0 THEN <<root - 1, r + 2 * root - 1>> ELSE <<root, r>>

\* the root and the remainder of 16 <= x < 64
F32SqrtSmall(x) ==
    IF x < 25 THEN <<4, x - 16>>
    ELSE IF x < 36 THEN <<5, x - 25>>
    ELSE IF x < 49 THEN <<6, x - 36>>
    ELSE <<7, x - 49>>

\* the root and the remainder of hi * 2^24 + lo for 2^22 <= hi < 2^24 and
\* lo < 2^24: of the top 6 bits, then of the top 12, of the top 24, of all 48
F32SqrtBits(hi, lo) ==
    Only({F32SqrtStep(s24, lo \div 4096, lo % 4096, 4096) :
             s24 \in {F32SqrtStep(s12, (hi % 4096) \div 64, hi % 64, 64) :
                         s12 \in {F32SqrtStep(F32SqrtSmall(hi \div 262144),
                                               (hi \div 32768) % 8, (hi \div 4096) % 8, 8)}}})

\* sqrt(a) for a >= 0: the root of the mantissa extended to 47 or 48 bits,
\* rounded up when the remainder is above the root (the root is never half
\* way between two values)
F32Sqrt(a) ==
    IF a.m = 0 THEN F32Zero
    ELSE LET odd == a.e % 2 = 1
             hi == IF odd THEN a.m \div 2 ELSE a.m
             lo == IF odd THEN (a.m % 2) * F32_MIN_MANTISSA ELSE 0
             s == F32SqrtBits(hi, lo)
             m == IF s[2] > s[1] THEN s[1] + 1 ELSE s[1]
             e == (a.e - (IF odd THEN 23 ELSE 24)) \div 2
         IN  IF m = F32_MAX_MANTISSA THEN [m |-> F32_MIN_MANTISSA, e |-> e + 1]
             ELSE [m |-> m, e |-> e]

\* glam Vec3::dot: (x * x) + (y * y) + (z * z)
Vec3Dot(u, v) ==
    Only({F32Add(xy, z) :
             xy \in {F32Add(x, y) : x \in {F32Mul(u[1], v[1])}, y \in {F32Mul(u[2], v[2])}},
             z \in {F32Mul(u[3], v[3])}})

\* Duration::as_secs_f32 of a duration of ms milliseconds, what Time hands to
\* the systems as elapsed_secs() and delta_secs():
\* (secs as f32) + (nanos as f32) / (NANOS_PER_SEC as f32)
Secs(ms) ==
    F32Add(F32Of(ms \div 1000, 0),
           F32Div(F32Of((ms % 1000) * 1000000, 0), F32Of(1000000000, 0)))

-----------------------------------------------------------------------------
(* Coordinate pyramid *)

\* resources::constants::max_tile_index: 2^zoom - 1
max_tile_index(zoom) == Pow2(zoom) - 1

\* utils::coordinate_conversion::world_to_tile_coords: one world unit is one
\* tile at the overlay zoom; other zooms by power-of-two scaling.
world_to_tile_coords(px, pz, zoom) ==
    IF zoom <= PERSISTENT_ISLAND_ZOOM_LEVEL
    THEN <<Shr(px, PERSISTENT_ISLAND_ZOOM_LEVEL - zoom),
           Shr(pz, PERSISTENT_ISLAND_ZOOM_LEVEL - zoom)>>
    ELSE <<Shl(px, zoom - PERSISTENT_ISLAND_ZOOM_LEVEL),
           Shl(pz, zoom - PERSISTENT_ISLAND_ZOOM_LEVEL)>>

\* the match on the zoom level giving the window half-width
visible_range(zoom) ==
    IF zoom >= 18 THEN 3
    ELSE IF zoom >= 16 THEN 4
    ELSE IF zoom >= 14 THEN 5
    ELSE 6

\* a budget that ignores the zoom level
max_concurrent_loads_Flat(zoom) == 12

\* the match on the zoom level giving the per-invocation budget
max_concurrent_loads(zoom) ==
    IF zoom >= 17 THEN 8
    ELSE IF zoom >= 15 THEN 10
    ELSE 12

-----------------------------------------------------------------------------
(* Fetch pipeline: dispatch *)

HasPending(key, pend) ==
    \E i \in 1..Len(pend) : pend[i][1] = key[1] /\ pend[i][2] = key[2] /\ pend[i][3] = key[3]

HasActive(key, ts) ==
    \E i \in 1..Len(ts) : ts[i][1] = key[1] /\ ts[i][2] = key[2] /\ ts[i][3] = key[3]

\* the dispatch test without its loaded-set half
AlreadyRequested_PendingOnly(key, ld, pend) == HasPending(key, pend)

\* "already loaded or pending": the test made before every dispatch
AlreadyRequested(key, ld, pend) == InSeq(key, ld) \/ HasPending(key, pend)

\* loaded_tiles.push(key) and tokio_runtime.spawn(load_tile_image(key)).
\* acc carries the loaded-set, the spawned tasks, the result queue as the
\* tasks fill it while the system runs, the budget counter and the record of
\* what was handed to the fetch pipeline.
Dispatch(acc, key, site, counted) ==
    [acc EXCEPT
        !.loaded   = Append(@, key),
        !.inflight = Append(@, key),
        !.count    = IF counted THEN @ + 1 ELSE @,
        !.log      = Append(@,
                        [key |-> key, site |-> site,
                         wasLoaded   |-> InSeq(key, acc.loaded),
                         wasPending  |-> HasPending(key, acc.pending),
                         wasActive   |-> HasActive(key, tiles),
                         wasInflight |-> InSeq(key, acc.inflight)])]

-----------------------------------------------------------------------------
(* Fetch pipeline: completion of a spawned task *)

RemoveAt(s, i) == SubSeq(s, 1, i - 1) \o SubSeq(s, i + 1, Len(s))

\* variant: a failed fetch leaves nothing in the queue
PushResult_DropFailed(pend, key, ok) ==
    IF ok THEN Append(pend, <<key[1], key[2], key[3], "image">>) ELSE pend

\* pending_tiles.lock().push((x, y, z, Some(image))) or (.., None)
PushResult(pend, key, ok) ==
    Append(pend, <<key[1], key[2], key[3], IF ok THEN "image" ELSE "none">>)

\* The fetches of a run: results are delivered while fewer than `room` results
\* exist (queued or turned into tiles), with the outcomes of `outcomes` (TRUE
\* an image, FALSE an error), for the tiles of `keys`; the other fetches stay
\* in flight.
Fetches(room, outcomes, keys) ==
    [room |-> room, outcomes |-> outcomes, keys |-> keys, prompt |-> FALSE]

AnyKey == Nat \X Nat \X Nat

\* fetches that take no time: a task pushes its result before the main loop
\* comes to its next lock() (a tile served from a local cache)
PromptFetches(room, outcomes) ==
    [room |-> room, outcomes |-> outcomes, keys |-> AnyKey, prompt |-> TRUE]

\* no fetch completes
NoFetches == Fetches(0, {}, {})

\* the tasks in flight that may push their result now; held is the number of
\* results that exist. Two tasks fetching the same tile push the same tuples,
\* so the earlier one stands for both.
Completable(fetches, fl, held) ==
    IF held < fetches.room
    THEN {i \in 1..Len(fl) : /\ fl[i] \in fetches.keys
                             /\ \A j \in 1..(i - 1) : fl[j] # fl[i]}
    ELSE {}

\* the state a system works on: acc0 is its view of the loaded-set and of the
\* tasks in flight, pend the queue behind the mutex
Working(acc0, pend, active) ==
    [loaded |-> acc0.loaded, inflight |-> acc0.inflight, pending |-> pend,
     count |-> 0, log |-> <<>>, active |-> active]

\* task i pushes its result while the system runs
Complete(acc, i, ok) ==
    [acc EXCEPT !.pending  = PushResult(@, acc.inflight[i], ok),
                !.inflight = RemoveAt(@, i)]

RECURSIVE Arrive(_, _)
\* The system does not hold the lock: the fetch tasks take it and push. Zero
\* or more of the tasks in flight complete, in any order; in a run of prompt
\* fetches, all of those that may.
Arrive(accs, fetches) ==
    LET more == accs \cup UNION {
                    {Complete(a, i, ok) :
                        i \in Completable(fetches, a.inflight, Len(a.pending) + a.active),
                        ok \in fetches.outcomes} : a \in accs}
    IN  IF more # accs THEN Arrive(more, fetches)
        ELSE IF fetches.prompt
        THEN {a \in accs :
                 Completable(fetches, a.inflight, Len(a.pending) + a.active) = {}}
        ELSE accs

-----------------------------------------------------------------------------
(* Demand scheduler: process_tiles *)

\* (scaled_x, scaled_y): an island key converted to the current zoom
IslandScaled(island, zoom_diff) ==
    IF zoom_diff > 0
    THEN <<Shr(island[1], zoom_diff), Shr(island[2], zoom_diff)>>
    ELSE IF zoom_diff < 0
    THEN <<Shl(island[1], -zoom_diff), Shl(island[2], -zoom_diff)>>
    ELSE island

\* for x in start_x..=end_x { for y in start_y..=end_y { push((x, y)) } }
IslandBlock(island, abs_diff) ==
    LET n == Pow2(abs_diff)
        sx == Shl(island[1], abs_diff)
        sy == Shl(island[2], abs_diff)
    IN  [i \in 1..(n * n) |-> <<sx + ((i - 1) \div n), sy + ((i - 1) % n)>>]

\* what one island contributes to persistent_islands_to_check
IslandCheckEntries(island, zoom, center) ==
    LET zoom_diff == PERSISTENT_ISLAND_ZOOM_LEVEL - zoom
        scaled == IslandScaled(island, zoom_diff)
        distance == Abs(scaled[1] - center[1]) + Abs(scaled[2] - center[2])
    IN  (IF zoom_diff < 0 THEN IslandBlock(island, -zoom_diff) ELSE <<>>)
        \o (IF distance <= visible_range(zoom) * 3 THEN <<scaled>> ELSE <<>>)

persistent_islands_to_check(islands, zoom, center) ==
    Concat([i \in 1..Len(islands) |-> IslandCheckEntries(islands[i], zoom, center)], 1)

\* "Skip if already loaded or pending", else dispatch: one entry to check. The
\* lock is held for the test of pending_tiles only; results arrive once it is
\* released.
OverlayFetch(entry, acc, fetches) ==
    LET key == Key(entry[1], entry[2], PERSISTENT_ISLAND_ZOOM_LEVEL)
    IN  Arrive({IF AlreadyRequested(key, acc.loaded, acc.pending)
                THEN acc
                ELSE Dispatch(acc, key, "overlay", FALSE)}, fetches)

RECURSIVE OverlayFetchLoop(_, _, _, _)
\* "always load the actual island tiles": one dispatch per entry to check
OverlayFetchLoop(check, i, accs, fetches) ==
    IF i > Len(check) THEN accs
    ELSE OverlayFetchLoop(check, i + 1,
             UNION {OverlayFetch(check[i], a, fetches) : a \in accs}, fetches)

RECURSIVE current_zoom_island_tiles(_, _, _, _)
\* the entries to check converted "to the current zoom level"
current_zoom_island_tiles(check, i, zoom_diff, acc) ==
    IF i > Len(check) THEN acc
    ELSE LET e == check[i]
         IN  IF zoom_diff > 0
             THEN LET c == <<Shr(e[1], zoom_diff), Shr(e[2], zoom_diff)>>
                  IN  current_zoom_island_tiles(check, i + 1, zoom_diff,
                          IF InSeq(c, acc) THEN acc ELSE Append(acc, c))
             ELSE IF zoom_diff < 0
             THEN current_zoom_island_tiles(check, i + 1, zoom_diff,
                          acc \o IslandBlock(e, -zoom_diff))
             ELSE current_zoom_island_tiles(check, i + 1, zoom_diff,
                          IF InSeq(e, acc) THEN acc ELSE Append(acc, e))

\* let frustum_angle = -0.3: the f32 nearest to it
frustum_angle == F32Neg(F32Literal(300))

\* the sign of v * (t - c) is not negative: conversion to f32, the additions
\* and the products are monotone, so a sign that holds of the integers holds
\* of the rounded values (a rounded difference or product may be zero)
NotNegative(v, t_ge_c, t_le_c) == v = 0 \/ (v > 0 /\ t_ge_c) \/ (v < 0 /\ t_le_c)

\* no term of to_tile.normalize().dot(forward) is negative: to_tile is
\* (tile_x + 0.5 - x, 0 - y, tile_y + 0.5 - z) and normalize() multiplies it
\* by 1.0 / dist > 0
NoNegativeTerm(tx, ty, cam) ==
    /\ NotNegative(cam.fwd[1], tx >= cam.x, tx < cam.x)
    /\ NotNegative(cam.fwd[2], cam.y <= 0, cam.y >= 0)
    /\ NotNegative(cam.fwd[3], ty >= cam.z, ty < cam.z)

\* dot < frustum_angle && dist > visible_range as f32 * 1.5, in f32 as the
\* code computes it: tile_pos = (x + 0.5, 0, y + 0.5), to_tile = tile_pos -
\* translation, dist = to_tile.length(), to_tile.normalize() = to_tile *
\* (1.0 / dist), dot with forward. At dist = 0 the dot is NaN and no
\* comparison holds. Each value is computed once and bound to its name.
\* Where no term of the dot product is negative the sum of the three is not
\* below zero in f32 either, and the tile is kept without computing it.
FrustumDiscard(tx, ty, cam, vr) ==
    /\ ~NoNegativeTerm(tx, ty, cam)
    /\ \E tile_pos \in {<<F32Add(F32Of(tx, 0), F32Of(1, -1)), F32Zero,
                           F32Add(F32Of(ty, 0), F32Of(1, -1))>>},
          translation \in {<<F32Of(cam.x, 0), F32Of(cam.y, 0), F32Of(cam.z, 0)>>},
          forward \in {<<F32Of(cam.fwd[1], 0), F32Of(cam.fwd[2], 0), F32Of(cam.fwd[3], 0)>>} :
       \E to_tile \in {<<F32Sub(tile_pos[1], translation[1]),
                          F32Sub(tile_pos[2], translation[2]),
                          F32Sub(tile_pos[3], translation[3])>>} :
       \E length_squared \in {Vec3Dot(to_tile, to_tile)} :
       \E dist \in {F32Sqrt(length_squared)} :
          /\ dist.m # 0
          /\ F32Gt(dist, F32Mul(F32Of(vr, 0), F32Of(3, -1)))
          /\ \E length_recip \in {F32Div(F32Of(1, 0), dist)} :
             \E normalized \in {<<F32Mul(to_tile[1], length_recip),
                                   F32Mul(to_tile[2], length_recip),
                                   F32Mul(to_tile[3], length_recip)>>} :
             \E dot \in {Vec3Dot(normalized, forward)} :
                F32Gt(frustum_angle, dot)

\* the candidate at window position i (x offset outer loop, y offset inner loop)
Candidate(i, zoom, center, island_tiles) ==
    LET vr == visible_range(zoom)
        n  == 2 * vr + 1
        x_offset == ((i - 1) \div n) - vr
        y_offset == ((i - 1) % n) - vr
        tile_x == Clamp(center[1] + x_offset, 0, max_tile_index(zoom))
        tile_y == Clamp(center[2] + y_offset, 0, max_tile_index(zoom))
        distance == Abs(x_offset) + Abs(y_offset)
        is_island_tile == InSeq(<<tile_x, tile_y>>, island_tiles)
    IN  [x |-> tile_x, y |-> tile_y, raw |-> distance, island |-> is_island_tile,
         d |-> IF is_island_tile THEN distance \div 2 ELSE distance]

\* tiles_to_load before sorting: the window minus the frustum discards
tiles_to_load(zoom, center, island_tiles, cam) ==
    LET vr == visible_range(zoom)
        n  == 2 * vr + 1
        all == [i \in 1..(n * n) |-> Candidate(i, zoom, center, island_tiles)]
    IN  SelectSeq(all, LAMBDA c : ~FrustumDiscard(c.x, c.y, cam, vr))

\* sort_by_key(adjusted distance): a stable sort
SortByDistance(cands, zoom) ==
    Concat([k \in 1..(2 * visible_range(zoom) + 1) |->
               SelectSeq(cands, LAMBDA c : c.d = k - 1)], 1)

\* variant: a candidate that is skipped uses up one unit of the budget
ScheduleTest_SkipCounts(cand, zoom, acc, fetches) ==
    LET key == Key(cand.x, cand.y, zoom)
    IN  IF acc.count >= max_concurrent_loads(zoom) THEN {acc}
        ELSE Arrive({IF AlreadyRequested(key, acc.loaded, acc.pending)
                     THEN [acc EXCEPT !.count = @ + 1]
                     ELSE Dispatch(acc, key, "current", TRUE)}, fetches)

\* one candidate of the dispatch loop: nothing once the budget is used up
\* (break); else the test "already loaded or pending", under the lock, and the
\* dispatch; results arrive once the lock is released
ScheduleTest(cand, zoom, acc, fetches) ==
    LET key == Key(cand.x, cand.y, zoom)
    IN  IF acc.count >= max_concurrent_loads(zoom) THEN {acc}
        ELSE Arrive({IF AlreadyRequested(key, acc.loaded, acc.pending)
                     THEN acc
                     ELSE Dispatch(acc, key, "current", TRUE)}, fetches)

RECURSIVE ScheduleLoop(_, _, _, _, _)
\* the dispatch loop over the sorted candidates, up to the budget
ScheduleLoop(cands, i, zoom, accs, fetches) ==
    IF i > Len(cands) \/ \A a \in accs : a.count >= max_concurrent_loads(zoom)
    THEN accs
    ELSE ScheduleLoop(cands, i + 1, zoom,
             UNION {ScheduleTest(cands[i], zoom, a, fetches) : a \in accs}, fetches)

\* the whole of process_tiles for a present camera: every state it can end in,
\* one for each way the fetch tasks in flight complete while it runs
process_tiles(cam, fetches) ==
    LET zoom   == current_zoom
        center == world_to_tile_coords(cam.x, cam.z, zoom)
        check  == persistent_islands_to_check(persistent_islands, zoom, center)
        acc0   == Working([loaded |-> loaded_tiles, inflight |-> inflight],
                          pending_tiles, Len(tiles))
        accs1  == OverlayFetchLoop(check, 1, {acc0}, fetches)
        island_tiles == current_zoom_island_tiles(check, 1,
                            PERSISTENT_ISLAND_ZOOM_LEVEL - zoom, <<>>)
        sorted == SortByDistance(tiles_to_load(zoom, center, island_tiles, cam), zoom)
    IN  [accs |-> ScheduleLoop(sorted, 1, zoom, accs1, fetches),
         sorted |-> sorted, check |-> check]

\* the system whose turn it is in this frame's schedule
IsNext(system) == ran < Len(order) /\ order[ran + 1] = system

NoObs(op) == [op |-> op, log |-> <<>>, loads |-> 0, removed |-> <<>>,
              indices |-> <<>>, swept |-> FALSE, applied |-> <<>>, zoomed |-> FALSE]

ProcessTiles(fetches) ==
    /\ IsNext("process_tiles")
    /\ ran' = ran + 1
    /\ IF camera.present
       THEN \E r \in {process_tiles(camera, fetches)} :
            \E acc \in r.accs :
                /\ loaded_tiles' = acc.loaded
                /\ inflight' = acc.inflight
                /\ pending_tiles' = acc.pending
                /\ obs' = [NoObs("process_tiles") EXCEPT
                              !.log = acc.log, !.loads = acc.count]
       ELSE /\ UNCHANGED <<loaded_tiles, inflight, pending_tiles>>
            /\ obs' = NoObs("process_tiles")
    /\ UNCHANGED <<tiles, coords, current_zoom, total_time,
                   height_thresholds, persistent_islands, camera, now, delta, order, frame>>

-----------------------------------------------------------------------------
(* Application stage: apply_pending_tiles *)

\* is_exact_island: at the overlay zoom and a key of the overlay index
is_exact_island(x, y, z, islands) ==
    z = PERSISTENT_ISLAND_ZOOM_LEVEL /\ InSeq(<<x, y>>, islands)

\* is_island_corresponding_tile, against a list of island (x, y) keys
is_island_corresponding_tile(x, y, z, islands) ==
    /\ z # PERSISTENT_ISLAND_ZOOM_LEVEL
    /\ LET zoom_diff == PERSISTENT_ISLAND_ZOOM_LEVEL - z
       IN  IF zoom_diff > 0
           THEN \E i \in 1..Len(islands) :
                    Shr(islands[i][1], zoom_diff) = x /\ Shr(islands[i][2], zoom_diff) = y
           ELSE \E i \in 1..Len(islands) :
                    LET start_x == Shl(islands[i][1], -zoom_diff)
                        start_y == Shl(islands[i][2], -zoom_diff)
                        end_x == start_x + Pow2(-zoom_diff) - 1
                        end_y == start_y + Pow2(-zoom_diff) - 1
                    IN  x >= start_x /\ x <= end_x /\ y >= start_y /\ y <= end_y

\* which of the four creation branches a result takes
TileVisual(img, exact, corresponding) ==
    IF img = "image"
    THEN IF exact \/ corresponding THEN "overlay_image" ELSE "image"
    ELSE IF exact THEN "overlay_fallback_exact"
    ELSE IF corresponding THEN "overlay_fallback_corresponding"
    ELSE "fallback"

\* commands.spawn: a handle not in use
FreshEntity(cs) == CHOOSE e \in 1..(Cardinality(DOMAIN cs) + 1) : e \notin DOMAIN cs

RECURSIVE ApplyLoop_SkipFailed(_, _, _)
\* variant: a result without an image is dropped instead of becoming a tile
ApplyLoop_SkipFailed(drained, i, acc) ==
    IF i > Len(drained) THEN acc
    ELSE IF drained[i][4] = "none" THEN ApplyLoop_SkipFailed(drained, i + 1, acc)
    ELSE LET x == drained[i][1]
             y == drained[i][2]
             z == drained[i][3]
             exact == is_exact_island(x, y, z, persistent_islands)
             corr  == is_island_corresponding_tile(x, y, z, persistent_islands)
             e == FreshEntity(acc.coords)
             c == [x |-> x, y |-> y, zoom |-> z, last_used |-> now,
                   island |-> exact,
                   visual |-> TileVisual(drained[i][4], exact, corr)]
         IN  ApplyLoop_SkipFailed(drained, i + 1,
                 [tiles  |-> Append(acc.tiles, <<x, y, z, e>>),
                  coords |-> (e :> c) @@ acc.coords])

RECURSIVE ApplyLoop(_, _, _)
\* for (x, y, z, image_opt) in pending_tiles { ... osm_data.tiles.push(..) }
ApplyLoop(drained, i, acc) ==
    IF i > Len(drained) THEN acc
    ELSE LET x == drained[i][1]
             y == drained[i][2]
             z == drained[i][3]
             exact == is_exact_island(x, y, z, persistent_islands)
             corr  == is_island_corresponding_tile(x, y, z, persistent_islands)
             e == FreshEntity(acc.coords)
             c == [x |-> x, y |-> y, zoom |-> z, last_used |-> now,
                   island |-> exact,
                   visual |-> TileVisual(drained[i][4], exact, corr)]
         IN  ApplyLoop(drained, i + 1,
                 [tiles  |-> Append(acc.tiles, <<x, y, z, e>>),
                  coords |-> (e :> c) @@ acc.coords])

\* pending.drain(..).collect() under the lock and drop(pending): the queue is
\* empty when the lock is released, and the fetch tasks push into it while
\* the entities are created
apply_pending_tiles(fetches) ==
    Arrive({Working([loaded |-> loaded_tiles, inflight |-> inflight],
                    <<>>, Len(tiles) + Len(pending_tiles))}, fetches)

ApplyPendingTiles(fetches) ==
    /\ IsNext("apply_pending_tiles")
    /\ ran' = ran + 1
    /\ \E r \in {ApplyLoop(pending_tiles, 1, [tiles |-> tiles, coords |-> coords])} :
       \E acc \in apply_pending_tiles(fetches) :
           /\ pending_tiles' = acc.pending
           /\ inflight' = acc.inflight
           /\ tiles' = r.tiles
           /\ coords' = r.coords
           /\ obs' = [NoObs("apply_pending_tiles") EXCEPT !.applied = pending_tiles]
    /\ UNCHANGED <<loaded_tiles, current_zoom, total_time, height_thresholds,
                   persistent_islands, camera, now, delta, order, frame>>

-----------------------------------------------------------------------------
(* Recency: update_visible_tiles *)

\* camera_transform.translation.distance(tile_transform.translation) < limit,
\* squared; a tile entity stands at (x, 0, y)
WithinDistance(cam, c, limit) ==
    (cam.x - c.x) * (cam.x - c.x) + cam.y * cam.y + (cam.z - c.y) * (cam.z - c.y)
        < limit * limit

\* the query's iteration: entity handles in ascending order
EntitySeq(cs) ==
    LET S == DOMAIN cs
        n == Cardinality(S)
    IN  [i \in 1..n |-> CHOOSE e \in S : Cardinality({f \in S : f < e}) = i - 1]

\* the entity the island pass refreshes for island entity ie: the first of
\* the main query with the same x, y and zoom
FirstWithKey(cs, ie) ==
    LET es == EntitySeq(cs)
        k  == CHOOSE i \in 1..Len(es) :
                  /\ cs[es[i]].x = cs[ie].x /\ cs[es[i]].y = cs[ie].y
                  /\ cs[es[i]].zoom = cs[ie].zoom
                  /\ \A j \in 1..(i - 1) :
                        ~(/\ cs[es[j]].x = cs[ie].x /\ cs[es[j]].y = cs[ie].y
                          /\ cs[es[j]].zoom = cs[ie].zoom)
    IN  es[k]

update_visible_tiles(cam, cs) ==
    LET islands_to_update ==
            {e \in DOMAIN cs : cs[e].island /\ WithinDistance(cam, cs[e], ISLAND_VISIBLE_DISTANCE)}
        refreshed_islands == {FirstWithKey(cs, ie) : ie \in islands_to_update}
        refreshed_regular ==
            {e \in DOMAIN cs : /\ cs[e].zoom # PERSISTENT_ISLAND_ZOOM_LEVEL
                               /\ WithinDistance(cam, cs[e], TILE_VISIBLE_DISTANCE)}
    IN  [e \in DOMAIN cs |->
            IF e \in refreshed_islands \cup refreshed_regular
            THEN [cs[e] EXCEPT !.last_used = now]
            ELSE cs[e]]

\* variant: the recency pass runs even when the camera query is empty
UpdateVisibleTiles_NoCameraCheck ==
    /\ IsNext("update_visible_tiles")
    /\ ran' = ran + 1
    /\ coords' = update_visible_tiles(camera, coords)
    /\ obs' = NoObs("update_visible_tiles")
    /\ UNCHANGED <<loaded_tiles, pending_tiles, tiles, current_zoom, total_time,
                   height_thresholds, persistent_islands, inflight, camera, now,
                   delta, order, frame>>

UpdateVisibleTiles ==
    /\ IsNext("update_visible_tiles")
    /\ ran' = ran + 1
    /\ coords' = IF camera.present THEN update_visible_tiles(camera, coords) ELSE coords
    /\ obs' = NoObs("update_visible_tiles")
    /\ UNCHANGED <<loaded_tiles, pending_tiles, tiles, current_zoom, total_time,
                   height_thresholds, persistent_islands, inflight, camera, now,
                   delta, order, frame>>

-----------------------------------------------------------------------------
(* Eviction: cleanup_old_tiles *)

RECURSIVE InsertDesc(_, _)
InsertDesc(sorted, v) ==
    IF sorted = <<>> THEN <<v>>
    ELSE IF v > Head(sorted) THEN <<v>> \o sorted
    ELSE <<Head(sorted)>> \o InsertDesc(Tail(sorted), v)

\* variant: the indices are left in the order they were collected
SortDesc_Unsorted(s) == s

RECURSIVE SortDesc(_)
\* indices_to_remove.sort_by(|a, b| b.cmp(a))
SortDesc(s) == IF s = <<>> THEN <<>> ELSE InsertDesc(SortDesc(Tail(s)), Head(s))

\* osm_data.tiles.iter().position(..): index of the entry of this entity, 0 if none
TilePosition(ts, c, e) ==
    IF \E i \in 1..Len(ts) : ts[i] = <<c.x, c.y, c.zoom, e>>
    THEN CHOOSE i \in 1..Len(ts) :
             /\ ts[i] = <<c.x, c.y, c.zoom, e>>
             /\ \A j \in 1..(i - 1) : ts[j] # <<c.x, c.y, c.zoom, e>>
    ELSE 0

RECURSIVE RemoveIndices(_, _, _)
\* for idx in indices_to_remove { if idx < tiles.len() { tiles.remove(idx) } }
RemoveIndices(ts, idxs, i) ==
    IF i > Len(idxs) THEN ts
    ELSE RemoveIndices(IF idxs[i] <= Len(ts) THEN RemoveAt(ts, idxs[i]) ELSE ts,
                       idxs, i + 1)

\* the (x, y) of the entities that carry the PersistentIsland component
IslandEntities(cs) ==
    LET es == SelectSeq(EntitySeq(cs), LAMBDA e : cs[e].island)
    IN  [i \in 1..Len(es) |-> <<cs[es[i]].x, cs[es[i]].y>>]

\* is_persistent_island, as the sweep computes it
SweepIsPersistentIsland(c, cs) ==
    /\ c.zoom = PERSISTENT_ISLAND_ZOOM_LEVEL
    /\ \E e \in DOMAIN cs : cs[e].island /\ cs[e].x = c.x /\ cs[e].y = c.y
                            /\ cs[e].zoom = c.zoom

\* a sweep that gives every tile that is not an island the 90 s timeout
SweepTimeout_NoPlain(c, cs) ==
    IF SweepIsPersistentIsland(c, cs) THEN PERSISTENT_ISLAND_TIMEOUT
    ELSE PERSISTENT_ISLAND_TIMEOUT \div 2

\* the timeout the sweep gives a tile
SweepTimeout(c, cs) ==
    IF SweepIsPersistentIsland(c, cs) THEN PERSISTENT_ISLAND_TIMEOUT
    ELSE IF is_island_corresponding_tile(c.x, c.y, c.zoom, IslandEntities(cs))
    THEN PERSISTENT_ISLAND_TIMEOUT \div 2
    ELSE TILE_TIMEOUT

\* current_time - tile_coords.last_used, in f32
TileAge(c, t) == F32Sub(Secs(t), Secs(c.last_used))

\* a sweep without the exemption of the persistent islands
SweepExpired_NoExemption(c, cs, t) ==
    F32Gt(TileAge(c, t), F32Literal(SweepTimeout(c, cs)))

\* whether the sweep collects the entity for removal
SweepExpired(c, cs, t) ==
    F32Gt(TileAge(c, t), F32Literal(SweepTimeout(c, cs))) /\ ~SweepIsPersistentIsland(c, cs)

\* variant: only the keys of active tiles are kept
SweepRetain_ActiveOnly(key, ts, islands) == HasActive(key, ts)

\* loaded_tiles.retain after the sweep
SweepRetain(key, ts, islands) ==
    \/ HasActive(key, ts)
    \/ (key[3] = PERSISTENT_ISLAND_ZOOM_LEVEL /\ InSeq(<<key[1], key[2]>>, islands))

\* the literals 5.0 and 0.05 of the throttle, as f32
cleanup_period == F32Literal(CLEANUP_PERIOD)
cleanup_tolerance == F32Literal(CLEANUP_TOLERANCE)

\* total_time % 5.0 > 0.05 => return
SweepThrottled(tt) ==
    \E rem \in {F32Rem(tt, cleanup_period)} : F32Gt(rem, cleanup_tolerance)

cleanup_old_tiles(t) ==
    LET es == SelectSeq(EntitySeq(coords), LAMBDA e : SweepExpired(coords[e], coords, t))
        found == SelectSeq(es, LAMBDA e : TilePosition(tiles, coords[e], e) # 0)
        indices_to_remove ==
            SortDesc([i \in 1..Len(found) |-> TilePosition(tiles, coords[found[i]], found[i])])
        ts == RemoveIndices(tiles, indices_to_remove, 1)
        gone == {es[i] : i \in 1..Len(es)}
    IN  [tiles   |-> ts,
         coords  |-> [e \in DOMAIN coords \ gone |-> coords[e]],
         loaded  |-> SelectSeq(loaded_tiles, LAMBDA k : SweepRetain(k, ts, persistent_islands)),
         indices |-> indices_to_remove,
         removed |-> [i \in 1..Len(es) |->
                         [key |-> Key(coords[es[i]].x, coords[es[i]].y, coords[es[i]].zoom),
                          entity |-> es[i],
                          age |-> TileAge(coords[es[i]], t)]]]

CleanupOldTiles ==
    /\ IsNext("cleanup_old_tiles")
    /\ ran' = ran + 1
    /\ total_time' = F32Add(total_time, Secs(delta))
    /\ IF SweepThrottled(total_time')
       THEN /\ UNCHANGED <<tiles, coords, loaded_tiles>>
            /\ obs' = NoObs("cleanup_old_tiles")
       ELSE \E r \in {cleanup_old_tiles(now)} :
                /\ tiles' = r.tiles
                /\ coords' = r.coords
                /\ loaded_tiles' = r.loaded
                /\ obs' = [NoObs("cleanup_old_tiles") EXCEPT
                              !.swept = TRUE, !.removed = r.removed,
                              !.indices = r.indices]
    /\ UNCHANGED <<pending_tiles, current_zoom, height_thresholds, persistent_islands,
                   inflight, camera, now, delta, order, frame>>

-----------------------------------------------------------------------------
(* Zoom controller: auto_detect_zoom_level *)

\* index of the first (min_height, zoom) with height >= min_height + 1.0, 0 if none
FirstThreshold(h, table) ==
    IF \E i \in 1..Len(table) : h >= table[i][1] + HYSTERESIS_BUFFER
    THEN CHOOSE i \in 1..Len(table) :
             /\ h >= table[i][1] + HYSTERESIS_BUFFER
             /\ \A j \in 1..(i - 1) : ~(h >= table[j][1] + HYSTERESIS_BUFFER)
    ELSE 0

\* min_height_for_zoom after the table scan
MinHeightForZoom(h, table) ==
    IF FirstThreshold(h, table) = 0 THEN 0 ELSE table[FirstThreshold(h, table)][1]

\* the zoom controller without the guard on switching to a higher zoom
TargetZoom_NoGuard(h, table, cur) ==
    IF FirstThreshold(h, table) = 0 THEN cur ELSE table[FirstThreshold(h, table)][2]

\* variant: the guard holds back a switch to a lower zoom instead
TargetZoom_GuardLower(h, table, cur) ==
    LET k == FirstThreshold(h, table)
        candidate == IF k = 0 THEN cur ELSE table[k][2]
    IN  IF candidate < cur /\ h < MinHeightForZoom(h, table) + ZOOM_IN_GUARD
        THEN cur
        ELSE candidate

\* variant: the controller moves one level per invocation towards the level
\* of the table
TargetZoom_Stepwise(h, table, cur) ==
    LET k == FirstThreshold(h, table)
        candidate == IF k = 0 THEN cur ELSE table[k][2]
    IN  IF candidate > cur THEN cur + 1
        ELSE IF candidate < cur THEN cur - 1
        ELSE cur

\* new_zoom after the table scan and the guard on switching to a higher zoom
TargetZoom(h, table, cur) ==
    LET k == FirstThreshold(h, table)
        candidate == IF k = 0 THEN cur ELSE table[k][2]
    IN  IF candidate > cur /\ h < MinHeightForZoom(h, table) + ZOOM_IN_GUARD
        THEN cur
        ELSE candidate

\* next_potential_zoom when the zoom is steady (0.7 and 0.3 of the band, in tenths)
NextPotentialZoom(h, min_h, cur) ==
    IF 10 * h > 17 * min_h
    THEN IF cur > MIN_ZOOM_LEVEL THEN cur - 1 ELSE cur
    ELSE IF 10 * h < 13 * min_h
    THEN IF cur < MAX_ZOOM_LEVEL THEN cur + 1 ELSE cur
    ELSE cur

potential_zoom_levels(h, min_h, cur, new_zoom) ==
    IF new_zoom # cur THEN <<cur, new_zoom>>
    ELSE IF NextPotentialZoom(h, min_h, cur) # cur
    THEN <<cur, NextPotentialZoom(h, min_h, cur)>>
    ELSE <<cur>>

\* the 5x5 block of keys preloaded at one zoom level
PreloadBlock(cam, zoom_level) ==
    LET center == world_to_tile_coords(cam.x, cam.z, zoom_level)
        n == 2 * PRELOAD_RANGE + 1
    IN  [i \in 1..(n * n) |->
            Key(Max(center[1] + ((i - 1) \div n) - PRELOAD_RANGE, 0),
                Max(center[2] + ((i - 1) % n) - PRELOAD_RANGE, 0),
                zoom_level)]

\* variant: the current zoom is preloaded too when the zoom is steady
PreloadKeys_WithCurrent(cam, levels, cur, new_zoom) ==
    Concat([i \in 1..Len(levels) |-> PreloadBlock(cam, levels[i])], 1)

\* the keys the preload loops visit, in order
PreloadKeys(cam, levels, cur, new_zoom) ==
    Concat([i \in 1..Len(levels) |->
               IF levels[i] = cur /\ new_zoom = cur
               THEN <<>>
               ELSE PreloadBlock(cam, levels[i])], 1)

\* "Only load if it's not already loaded or pending": one key of the block.
\* The lock is held for the test of pending_tiles only; results arrive once it
\* is released.
PreloadTest(key, acc, fetches) ==
    Arrive({IF AlreadyRequested(key, acc.loaded, acc.pending)
            THEN acc
            ELSE Dispatch(acc, key, "preload", FALSE)}, fetches)

RECURSIVE PreloadLoop(_, _, _, _)
PreloadLoop(keys, i, accs, fetches) ==
    IF i > Len(keys) THEN accs
    ELSE PreloadLoop(keys, i + 1,
             UNION {PreloadTest(keys[i], a, fetches) : a \in accs}, fetches)

\* a coordinate of zoom z seen at new_zoom: / 2^d towards lower zoom, * 2^d towards higher
ScaleToZoom(v, z, new_zoom) ==
    IF z > new_zoom THEN v \div Pow2(z - new_zoom) ELSE v * Pow2(new_zoom - z)

\* whether a zoom change to new_zoom retires an active tile
RetireTile(t, new_zoom, center, vr) ==
    IF t[3] = PERSISTENT_ISLAND_ZOOM_LEVEL THEN FALSE
    ELSE IF t[3] # new_zoom
    THEN \/ Abs(ScaleToZoom(t[1], t[3], new_zoom) - center[1]) > vr * 4
         \/ Abs(ScaleToZoom(t[2], t[3], new_zoom) - center[2]) > vr * 4
         \/ Abs(t[3] - new_zoom) > 2
    ELSE \/ Abs(t[1] - center[1]) > vr * 3
         \/ Abs(t[2] - center[2]) > vr * 3

\* variant: the keys of zoom 17 go through the distance and level test like
\* the keys of every other zoom
ZoomRetain_NoIslandRule(k, new_zoom, center, vr, islands) ==
    IF k[3] # new_zoom
    THEN /\ Abs(ScaleToZoom(k[1], k[3], new_zoom) - center[1]) <= vr * 5
         /\ Abs(ScaleToZoom(k[2], k[3], new_zoom) - center[2]) <= vr * 5
         /\ Abs(k[3] - new_zoom) <= 2
    ELSE /\ Abs(k[1] - center[1]) <= vr * 5
         /\ Abs(k[2] - center[2]) <= vr * 5

\* loaded_tiles.retain on a zoom change
ZoomRetain(k, new_zoom, center, vr, islands) ==
    IF k[3] = PERSISTENT_ISLAND_ZOOM_LEVEL THEN InSeq(<<k[1], k[2]>>, islands)
    ELSE IF k[3] # new_zoom
    THEN /\ Abs(ScaleToZoom(k[1], k[3], new_zoom) - center[1]) <= vr * 5
         /\ Abs(ScaleToZoom(k[2], k[3], new_zoom) - center[2]) <= vr * 5
         /\ Abs(k[3] - new_zoom) <= 2
    ELSE /\ Abs(k[1] - center[1]) <= vr * 5
         /\ Abs(k[2] - center[2]) <= vr * 5

RECURSIVE RemoveEach(_, _, _)
\* for (idx, entity) in tiles_to_remove { despawn; tiles.remove(idx) }
RemoveEach(ts, idxs, i) ==
    IF i > Len(idxs) THEN ts ELSE RemoveEach(RemoveAt(ts, idxs[i]), idxs, i + 1)

\* the tiles retired and the loaded-set pruned after current_zoom = new_zoom
zoom_change(cam, new_zoom, ld) ==
    LET center == world_to_tile_coords(cam.x, cam.z, new_zoom)
        vr == visible_range(new_zoom)
        all == [i \in 1..Len(tiles) |-> i]
        tiles_to_remove == SelectSeq(all, LAMBDA i : RetireTile(tiles[i], new_zoom, center, vr))
        gone == {tiles[tiles_to_remove[i]][4] : i \in 1..Len(tiles_to_remove)}
    IN  [tiles   |-> RemoveEach(tiles, SortDesc(tiles_to_remove), 1),
         indices |-> SortDesc(tiles_to_remove),
         coords  |-> [e \in DOMAIN coords \ gone |-> coords[e]],
         loaded  |-> SelectSeq(ld, LAMBDA k :
                         ZoomRetain(k, new_zoom, center, vr, persistent_islands)),
         removed |-> [i \in 1..Len(tiles_to_remove) |->
                         [key |-> Key(tiles[tiles_to_remove[i]][1],
                                      tiles[tiles_to_remove[i]][2],
                                      tiles[tiles_to_remove[i]][3]),
                          entity |-> tiles[tiles_to_remove[i]][4],
                          age |-> F32Zero]]]

\* the preload dispatches of one invocation: every state the loops can end
\* in, one for each way the fetch tasks in flight complete while they run
preload(cam, new_zoom, fetches) ==
    LET min_h == MinHeightForZoom(cam.y, height_thresholds)
        levels == potential_zoom_levels(cam.y, min_h, current_zoom, new_zoom)
    IN  PreloadLoop(PreloadKeys(cam, levels, current_zoom, new_zoom), 1,
            {Working([loaded |-> loaded_tiles, inflight |-> inflight],
                     pending_tiles, Len(tiles))}, fetches)

AutoDetectZoomLevel(fetches) ==
    /\ IsNext("auto_detect_zoom_level")
    /\ ran' = ran + 1
    /\ IF ~camera.present
       THEN /\ UNCHANGED <<loaded_tiles, inflight, pending_tiles, tiles, coords,
                           current_zoom>>
            /\ obs' = NoObs("auto_detect_zoom_level")
       ELSE \E new_zoom \in {TargetZoom(camera.y, height_thresholds, current_zoom)} :
            \E acc \in preload(camera, new_zoom, fetches) :
                /\ inflight' = acc.inflight
                /\ pending_tiles' = acc.pending
                /\ current_zoom' = new_zoom
                /\ IF new_zoom # current_zoom
                   THEN \E r \in {zoom_change(camera, new_zoom, acc.loaded)} :
                            /\ tiles' = r.tiles
                            /\ coords' = r.coords
                            /\ loaded_tiles' = r.loaded
                            /\ obs' = [NoObs("auto_detect_zoom_level") EXCEPT
                                          !.log = acc.log, !.removed = r.removed,
                                          !.indices = r.indices, !.zoomed = TRUE]
                   ELSE /\ loaded_tiles' = acc.loaded
                        /\ UNCHANGED <<tiles, coords>>
                        /\ obs' = [NoObs("auto_detect_zoom_level") EXCEPT !.log = acc.log]
    /\ UNCHANGED <<total_time, height_thresholds, persistent_islands,
                   camera, now, delta, order, frame>>

-----------------------------------------------------------------------------
(* Environment: frames, camera, time, fetch completions *)

MaxFrames == 2
MaxResults == 1
RefetchResults == 2

NoCamera == [present |-> FALSE, x |-> 0, y |-> 0, z |-> 0, fwd |-> <<0, -1, 0>>]
Cam(x, h, z, f) == [present |-> TRUE, x |-> x, y |-> h, z |-> z, fwd |-> f]
Down == <<0, -1, 0>>
East == <<1, 0, 0>>

\* the systems in the order of the source file, and with the zoom controller first
FileOrder == <<"process_tiles", "apply_pending_tiles", "update_visible_tiles",
               "cleanup_old_tiles", "auto_detect_zoom_level">>
ZoomFirstOrder == <<"auto_detect_zoom_level", "process_tiles", "apply_pending_tiles",
                    "update_visible_tiles", "cleanup_old_tiles">>
Orders == {FileOrder, ZoomFirstOrder}

\* the points of a frame between two systems, named by what comes next
NextPoint == IF ran < Len(order) THEN order[ran + 1] ELSE "frame_end"

\* the points before the systems that read the result queue or spawn fetch
\* tasks, and the end of the frame; a completion commutes with the other two
\* systems
TouchesQueue == {"process_tiles", "apply_pending_tiles", "auto_detect_zoom_level",
                 "frame_end"}

\* a spawned fetch task finishes between two systems, with an image or an
\* error: any task in flight that the run lets complete, at one of the given
\* points
FetchCompletesAt(fetches, points) ==
    /\ NextPoint \in points
    /\ \E i \in Completable(fetches, inflight, Len(pending_tiles) + Len(tiles)),
          ok \in fetches.outcomes :
          /\ pending_tiles' = PushResult(pending_tiles, inflight[i], ok)
          /\ inflight' = RemoveAt(inflight, i)
    /\ obs' = NoObs("fetch_complete")
    /\ UNCHANGED <<loaded_tiles, tiles, coords, current_zoom, total_time,
                   height_thresholds, persistent_islands, camera, now, delta,
                   order, ran, frame>>

\* the tile whose fetch was spawned first among those in flight
OldestInFlight == IF inflight = <<>> THEN {} ELSE {inflight[1]}

\* the tiles whose fetches were spawned first and last among those in flight
InFlightEnds == IF inflight = <<>> THEN {} ELSE {inflight[1], inflight[Len(inflight)]}

\* a completion before any system that reads the result queue or spawns tasks
FetchCompletes(fetches) == FetchCompletesAt(fetches, TouchesQueue)

\* the next frame starts: time advances, the camera may have moved
NewFrame(cams, dts, max_frames) ==
    /\ ran = Len(order)
    /\ frame < max_frames
    /\ frame' = frame + 1
    /\ ran' = 0
    /\ \E c \in cams, dt \in dts :
          /\ camera' = c
          /\ delta' = dt
          /\ now' = now + dt
    /\ obs' = NoObs("new_frame")
    /\ UNCHANGED <<loaded_tiles, pending_tiles, tiles, coords, current_zoom, total_time,
                   height_thresholds, persistent_islands, inflight, order>>

\* the state after construction, for overlay indexes, height tables, start
\* zooms and first-frame cameras drawn from the given sets
InitWith(islands, tables, cams) ==
    /\ loaded_tiles = <<>>
    /\ pending_tiles = <<>>
    /\ tiles = <<>>
    /\ coords = <<>>
    /\ total_time = F32Zero
    /\ inflight = <<>>
    /\ now = 0
    /\ delta = 0
    /\ ran = 0
    /\ frame = 0
    /\ obs = NoObs("init")
    /\ order \in Orders
    /\ persistent_islands \in islands
    /\ height_thresholds \in tables
    /\ current_zoom \in {height_thresholds[i][2] : i \in 1..Len(height_thresholds)}
    /\ camera \in cams

\* one system of the schedule runs, the fetch tasks completing while it does
SystemStep(fetches) ==
    \/ ProcessTiles(fetches)
    \/ ApplyPendingTiles(fetches)
    \/ UpdateVisibleTiles
    \/ CleanupOldTiles
    \/ AutoDetectZoomLevel(fetches)

-----------------------------------------------------------------------------
(* Specification: the five systems, frame after frame, and fetch completions, *)
(* for a camera that moves between the bands of zoom 16 and zoom 17           *)

Tables == {<<<<40, 16>>, <<10, 17>>>>}
Islands == {<<<<4, 6>>>>}
Cameras == {Cam(5, 60, 5, Down), Cam(5, 20, 5, East)}
Deltas == {5000}

Init == InitWith(Islands, Tables, Cameras)

Frame == NewFrame(Cameras, Deltas, MaxFrames)

\* the oldest and the newest fetch in flight may complete, at any point of a
\* frame and of a system
SpecFetches == Fetches(MaxResults, BOOLEAN, InFlightEnds)

FetchComplete == FetchCompletes(SpecFetches)

Next == SystemStep(SpecFetches) \/ FetchComplete \/ Frame

Spec == Init /\ [][Next]_vars

\* the same, with room for a second result
RefetchFetches == Fetches(RefetchResults, BOOLEAN, InFlightEnds)

FetchCompleteRefetch == FetchCompletes(RefetchFetches)

NextRefetch == SystemStep(RefetchFetches) \/ FetchCompleteRefetch \/ Frame

SpecRefetch == Init /\ [][NextRefetch]_vars

\* the same as Spec, the fetches completing in the order of their dispatch
InOrderFetches == Fetches(MaxResults, BOOLEAN, OldestInFlight)

FetchCompleteInOrder == FetchCompletes(InOrderFetches)

NextDedup == SystemStep(InOrderFetches) \/ FetchCompleteInOrder \/ Frame

SpecDedup == Init /\ [][NextDedup]_vars

-----------------------------------------------------------------------------
(* Specification of the scheduler's inputs: zoom levels below, at and above  *)
(* the overlay zoom, several overlay indexes, cameras high and low, near the *)
(* grid's edge and absent                                                     *)

SchedFrames == 1

SchedTables == {<<<<40, 12>>, <<10, 14>>>>, <<<<40, 15>>, <<10, 16>>>>,
                <<<<40, 17>>, <<10, 18>>>>}
SchedIslands == {<<>>, <<<<4, 6>>>>, <<<<9, 5>>, <<4, 6>>, <<20, 3>>>>}
SchedCameras == {Cam(5, 60, 5, Down), Cam(6, 2, 4, East), NoCamera}

InitSched == InitWith(SchedIslands, SchedTables, SchedCameras) /\ order = FileOrder

FrameSched == NewFrame(SchedCameras, Deltas, SchedFrames)

NextSched == SystemStep(InOrderFetches) \/ FetchCompleteInOrder \/ FrameSched

SpecSched == InitSched /\ [][NextSched]_vars

-----------------------------------------------------------------------------
(* Specification of eviction: a camera that stays put, high above the tiles  *)
(* (nothing is refreshed) or low over them, frames 2 s, 4 s or 44 s apart,   *)
(* so that a sweep meets tiles aged 44 s and 46 s                            *)

EvictFrames == 3
EvictResults == 2

EvictTables == {<<<<10, 17>>>>}
EvictCameras == {Cam(5, 60, 5, Down), Cam(5, 20, 5, Down)}
EvictDeltas == {2000, 4000, 44000}

InitEvict == InitWith(Islands, EvictTables, EvictCameras) /\ order = FileOrder

FrameEvict == NewFrame({camera}, EvictDeltas, EvictFrames)

\* results arrive between process_tiles and apply_pending_tiles
FetchCompleteEvict == FetchCompletesAt(Fetches(EvictResults, {TRUE}, InFlightEnds), {"apply_pending_tiles"})

NextEvict == SystemStep(NoFetches) \/ FetchCompleteEvict \/ FrameEvict

SpecEvict == InitEvict /\ [][NextEvict]_vars

-----------------------------------------------------------------------------
(* Specification of persistence: the same camera, frames 4 s, 46 s or 190 s  *)
(* apart, so that sweeps meet tiles unused for more than 45 s and for more   *)
(* than 180 s                                                                *)

PersistFrames == 2

PersistDeltas == {4000, 46000, 190000}

FramePersist == NewFrame({camera}, PersistDeltas, PersistFrames)

FetchCompletePersist == FetchCompletesAt(Fetches(EvictResults, BOOLEAN, InFlightEnds), {"apply_pending_tiles"})

NextPersist == SystemStep(NoFetches) \/ FetchCompletePersist \/ FramePersist

SpecPersist == InitEvict /\ [][NextPersist]_vars

-----
(* Specification of the zoom controller's hysteresis: the height table       *)
(* [(100, zoom 10), (50, zoom 12)], zoom 10 at the start, camera heights on  *)
(* both sides of every comparison the controller makes                       *)

ZoomFrames == 2

ZoomTable == <<<<100, 10>>, <<50, 12>>>>
ZoomHeights == {49, 52, 53, 100, 101}
ZoomCameras == {Cam(5, h, 5, Down) : h \in ZoomHeights}

InitZoom == InitWith(Islands, {ZoomTable}, ZoomCameras) /\ current_zoom = 10

FrameZoom == NewFrame(ZoomCameras, Deltas, ZoomFrames)

\* results arrive between process_tiles and apply_pending_tiles
FetchCompleteZoom == FetchCompletesAt(Fetches(MaxResults, BOOLEAN, InFlightEnds), {"apply_pending_tiles"})

NextZoom == SystemStep(NoFetches) \/ FetchCompleteZoom \/ FrameZoom

SpecZoom == InitZoom /\ [][NextZoom]_vars

-----------------------------------------------------------------------------
(* Properties *)

NoDuplicates(s) == \A i, j \in 1..Len(s) : i # j => s[i] # s[j]

TileKeys(ts) == [i \in 1..Len(ts) |-> Key(ts[i][1], ts[i][2], ts[i][3])]

\* C1: dedup. Every key handed to the fetch pipeline, at any of the three
\* dispatch sites, was absent from the loaded-set at that moment, and the
\* dispatch inserted it: the loaded-set never holds a key twice, and after a
\* step that does not prune the loaded-set every dispatched key is in it.
C1_Dedup ==
    /\ \A i \in 1..Len(obs.log) :
          /\ ~obs.log[i].wasLoaded
          /\ (~obs.zoomed => InSeq(obs.log[i].key, loaded_tiles))
    /\ NoDuplicates(loaded_tiles)

C1_Witness ==
    /\ obs.op = "process_tiles"
    /\ \E i \in 1..Len(obs.log) : obs.log[i].site = "overlay"
    /\ \E i \in 1..Len(obs.log) : obs.log[i].site = "current"
    /\ Len(loaded_tiles) > Len(obs.log)
    /\ frame > 0

\* C2: at most one outstanding fetch per key: no two tasks in flight for the
\* same key.
C2_OneOutstandingFetch == NoDuplicates(inflight)

\* C3: the scheduler dispatches no candidate key that has a result in the
\* queue or an entry in the active-tile list.
C3_PendingActiveSkipped ==
    obs.op = "process_tiles" =>
        \A i \in 1..Len(obs.log) :
            obs.log[i].site = "current" =>
                ~obs.log[i].wasPending /\ ~obs.log[i].wasActive

\* C4: the active-tile list holds at most one entry for any key.
C4_OneEntityPerKey == NoDuplicates(TileKeys(tiles))

CountSite(log, site) == Cardinality({i \in 1..Len(log) : log[i].site = site})

\* the budget as the specification states it
StatedBudget(zoom) == IF zoom >= 17 THEN 8 ELSE IF zoom >= 15 THEN 10 ELSE 12

\* the entries the overlay-zoom fetch loop visits in the current state
OverlayLoopKeys ==
    LET check == persistent_islands_to_check(persistent_islands, current_zoom,
                     world_to_tile_coords(camera.x, camera.z, current_zoom))
    IN  {Key(check[i][1], check[i][2], PERSISTENT_ISLAND_ZOOM_LEVEL) : i \in 1..Len(check)}

\* C5: one process_tiles invocation dispatches at most 8 / 10 / 12 current-zoom
\* requests (zoom >= 17 / >= 15 / otherwise); the budget counter counts exactly
\* those; the overlay-zoom loop's dispatches are not counted, and every key
\* that loop visits ends up requested whatever the budget.
C5_Budget ==
    obs.op = "process_tiles" =>
        /\ CountSite(obs.log, "current") <= StatedBudget(current_zoom)
        /\ obs.loads = CountSite(obs.log, "current")
        /\ camera.present =>
              \A k \in OverlayLoopKeys : AlreadyRequested(k, loaded_tiles, pending_tiles)

\* the budget is exhausted, with candidates left over, in an invocation whose
\* overlay-zoom loop alone dispatched more than the budget
C5_Witness ==
    /\ obs.op = "process_tiles"
    /\ CountSite(obs.log, "current") = StatedBudget(current_zoom)
    /\ CountSite(obs.log, "overlay") > StatedBudget(current_zoom)
    /\ \E c \in {process_tiles(camera, NoFetches).sorted[i] :
                    i \in 1..Len(process_tiles(camera, NoFetches).sorted)} :
          ~InSeq(Key(c.x, c.y, current_zoom), loaded_tiles)

\* whether a key corresponds to an entry of the overlay index: it is an
\* overlay key, or its reprojection to the overlay zoom meets one
Corresponds(x, y, z) ==
    \/ is_exact_island(x, y, z, persistent_islands)
    \/ is_island_corresponding_tile(x, y, z, persistent_islands)

\* C6: of two candidates of the window at the same Manhattan distance d >= 1,
\* exactly one of which corresponds to an overlay entry, the corresponding one
\* has adjusted distance d \div 2, the other d, and the corresponding one comes
\* earlier in the dispatch order.
C6_OverlayFirst ==
    (obs.op = "process_tiles" /\ camera.present) =>
        \E sorted \in {process_tiles(camera, NoFetches).sorted} :
            \A i, j \in 1..Len(sorted) :
                (/\ sorted[i].raw = sorted[j].raw
                 /\ sorted[i].raw >= 1
                 /\ Corresponds(sorted[i].x, sorted[i].y, current_zoom)
                 /\ ~Corresponds(sorted[j].x, sorted[j].y, current_zoom))
                => /\ sorted[i].d = sorted[i].raw \div 2
                   /\ sorted[j].d = sorted[j].raw
                   /\ i < j

\* C7: after process_tiles with a camera, every key of the overlay index is in
\* the loaded-set or the result queue at the overlay zoom.
C7_OverlayComplete ==
    (obs.op = "process_tiles" /\ camera.present) =>
        \A i \in 1..Len(persistent_islands) :
            AlreadyRequested(Key(persistent_islands[i][1], persistent_islands[i][2],
                                 PERSISTENT_ISLAND_ZOOM_LEVEL),
                             loaded_tiles, pending_tiles)

\* a plain tile: neither an exact-overlay tile nor an overlay-corresponding one
Plain(x, y, z) == ~Corresponds(x, y, z)

\* C8: when the sweep executes at time now, a plain tile is removed from the
\* active-tile list and despawned if and only if now - last_used > 45 s (the
\* difference as the sweep computes it, in f32 seconds): every
\* plain tile it removed was older than 45 s and is gone from the list and the
\* world, and every plain tile it left is at most 45 s old (46 s goes, 44 s stays).
C8_PlainTimeout ==
    (obs.op = "cleanup_old_tiles" /\ obs.swept) =>
        /\ \A i \in 1..Len(obs.removed) :
              Plain(obs.removed[i].key[1], obs.removed[i].key[2], obs.removed[i].key[3]) =>
                  /\ F32Gt(obs.removed[i].age, F32Literal(TILE_TIMEOUT))
                  /\ obs.removed[i].entity \notin DOMAIN coords
                  /\ \A j \in 1..Len(tiles) : tiles[j][4] # obs.removed[i].entity
        /\ \A e \in DOMAIN coords :
              Plain(coords[e].x, coords[e].y, coords[e].zoom) =>
                  /\ ~F32Gt(TileAge(coords[e], now), F32Literal(TILE_TIMEOUT))
                  /\ \E j \in 1..Len(tiles) : tiles[j][4] = e

\* one sweep removes a plain tile aged 46 s and keeps a plain tile aged 44 s
C8_Witness ==
    /\ obs.op = "cleanup_old_tiles" /\ obs.swept
    /\ \E i \in 1..Len(obs.removed) :
          /\ Plain(obs.removed[i].key[1], obs.removed[i].key[2], obs.removed[i].key[3])
          /\ obs.removed[i].age = Secs(46000)
    /\ \E e \in DOMAIN coords :
          /\ Plain(coords[e].x, coords[e].y, coords[e].zoom)
          /\ TileAge(coords[e], now) = Secs(44000)

\* the active exact-overlay tiles: entries of the active-tile list at the
\* overlay zoom whose (x, y) is a key of the overlay index
ExactOverlayTiles ==
    {i \in 1..Len(tiles) : is_exact_island(tiles[i][1], tiles[i][2], tiles[i][3],
                                           persistent_islands)}

\* C9: the eviction sweep never removes an active exact-overlay tile, however
\* old: every such tile of the active-tile list is still in the list, with its
\* entity alive, after a step of cleanup_old_tiles.
C9_ExactOverlayKept ==
    [][obs'.op = "cleanup_old_tiles" =>
          \A i \in ExactOverlayTiles :
              /\ tiles[i][4] \in DOMAIN coords'
              /\ \E j \in 1..Len(tiles') : tiles'[j] = tiles[i]]_vars

\* a sweep has executed and left an exact-overlay tile unused for more than 180 s
C9_Witness ==
    /\ obs.op = "cleanup_old_tiles" /\ obs.swept
    /\ \E i \in ExactOverlayTiles :
          /\ tiles[i][4] \in DOMAIN coords
          /\ F32Gt(TileAge(coords[tiles[i][4]], now), F32Literal(PERSISTENT_ISLAND_TIMEOUT))

\* C10 as stated: with the table [(100, 10), (50, 12)] the controller sets zoom
\* 12 only at a height below 50, and sets zoom 10 again only at a height above 53.
C10_AsStated ==
    [][(height_thresholds = ZoomTable) =>
          /\ (current_zoom = 10 /\ current_zoom' = 12) => camera.y < 50
          /\ (current_zoom = 12 /\ current_zoom' = 10) => camera.y > 53]_vars

\* C10: with the table [(100, 10), (50, 12)], an invocation of the zoom
\* controller at zoom 10 sets zoom 12 exactly when 53 <= height < 101 (below 51
\* no entry of the table matches, from 51 up to 53 the guard keeps zoom 10),
\* and at zoom 12 it sets zoom 10 exactly when height >= 101.
C10_Hysteresis ==
    [][(obs'.op = "auto_detect_zoom_level" /\ camera.present
            /\ height_thresholds = ZoomTable) =>
          /\ current_zoom = 10 =>
                current_zoom' = (IF camera.y >= 53 /\ camera.y < 101 THEN 12 ELSE 10)
          /\ current_zoom = 12 =>
                current_zoom' = (IF camera.y >= 101 THEN 10 ELSE 12)]_vars

\* the controller went from zoom 10 to zoom 12 at a height not below 50 and
\* has now set zoom 10 again
C10_Witness ==
    /\ height_thresholds = ZoomTable
    /\ obs.op = "auto_detect_zoom_level" /\ obs.zoomed
    /\ current_zoom = 10
    /\ camera.y >= 101

\* the visuals apply_pending_tiles gives a result without an image
FallbackVisuals == {"fallback", "overlay_fallback_exact", "overlay_fallback_corresponding"}

\* the keys whose active tile is a fallback: their fetch failed
FallbackKeys ==
    {Key(coords[e].x, coords[e].y, coords[e].zoom) :
        e \in {f \in DOMAIN coords : coords[f].visual \in FallbackVisuals}}

\* C11: a failed fetch never surfaces as an error: apply_pending_tiles turns
\* every (key, None) it drains into a fallback entity of the active-tile list,
\* and the scheduler dispatches no key while a fallback tile of it is active.
C11_FailureResolved ==
    /\ obs.op = "apply_pending_tiles" =>
          \A i \in 1..Len(obs.applied) :
              obs.applied[i][4] = "none" =>
                  \E j \in 1..Len(tiles) :
                      /\ TileKeys(tiles)[j] = Key(obs.applied[i][1], obs.applied[i][2],
                                                  obs.applied[i][3])
                      /\ tiles[j][4] \in DOMAIN coords
                      /\ coords[tiles[j][4]].visual \in FallbackVisuals
    /\ obs.op = "process_tiles" =>
          \A i \in 1..Len(obs.log) : obs.log[i].key \notin FallbackKeys

\* the keys known to have failed: a None result is queued for them, or their
\* active tile is a fallback
FailedKeys ==
    FallbackKeys \cup
    {Key(pending_tiles[i][1], pending_tiles[i][2], pending_tiles[i][3]) :
        i \in {j \in 1..Len(pending_tiles) : pending_tiles[j][4] = "none"}}

\* C12: no automatic retry: no step of any system (scheduler, application,
\* recency update, sweep, zoom controller) dispatches a fetch for a key whose
\* fetch has failed.
C12_NoRetry ==
    [][\A i \in 1..Len(obs'.log) : obs'.log[i].key \notin FailedKeys]_vars

\* C13: a late result for an untracked key is ignored: when apply_pending_tiles
\* drains a result whose key is no longer in the loaded-set, it creates no
\* entity and no active-list entry for it.
C13_LateResultIgnored ==
    obs.op = "apply_pending_tiles" =>
        \A i \in 1..Len(obs.applied) :
            ~InSeq(Key(obs.applied[i][1], obs.applied[i][2], obs.applied[i][3]),
                   loaded_tiles) =>
                ~\E j \in 1..Len(tiles) :
                    /\ TileKeys(tiles)[j] = Key(obs.applied[i][1], obs.applied[i][2],
                                                obs.applied[i][3])
                    /\ coords[tiles[j][4]].last_used = now

\* C14: atomic drain, exactly-once application: an apply_pending_tiles step
\* takes the whole result queue and appends, for every drained result and in
\* queue order, exactly one active-list entry with a fresh entity and
\* last_used = now; the queue it leaves holds only results of fetches that
\* completed after the drain, none of which is applied by this step; a result
\* that arrives at any other moment is only appended to the queue and waits
\* there for a later tick.
C14_DrainExactlyOnce ==
    [][/\ obs'.op = "apply_pending_tiles" =>
            /\ Len(pending_tiles') + Len(inflight') = Len(inflight)
            /\ \A i \in 1..Len(pending_tiles') :
                   InSeq(Key(pending_tiles'[i][1], pending_tiles'[i][2],
                             pending_tiles'[i][3]), inflight)
            /\ obs'.applied = pending_tiles
            /\ Len(tiles') = Len(tiles) + Len(pending_tiles)
            /\ SubSeq(tiles', 1, Len(tiles)) = tiles
            /\ Cardinality(DOMAIN coords') = Cardinality(DOMAIN coords) + Len(pending_tiles)
            /\ \A i \in 1..Len(pending_tiles) :
                   /\ TileKeys(tiles')[Len(tiles) + i] =
                          Key(pending_tiles[i][1], pending_tiles[i][2], pending_tiles[i][3])
                   /\ tiles'[Len(tiles) + i][4] \in DOMAIN coords' \ DOMAIN coords
                   /\ coords'[tiles'[Len(tiles) + i][4]].last_used = now
            /\ \A e \in DOMAIN coords : coords'[e] = coords[e]
       /\ obs'.op = "fetch_complete" =>
            /\ Len(pending_tiles') = Len(pending_tiles) + 1
            /\ SubSeq(pending_tiles', 1, Len(pending_tiles)) = pending_tiles
            /\ tiles' = tiles /\ coords' = coords
      ]_vars

\* an application step drained one failed result and created its tile while
\* the result of another fetch arrived, which waits in the queue
C14_Witness ==
    /\ obs.op = "apply_pending_tiles"
    /\ Len(obs.applied) = 1
    /\ obs.applied[1][4] = "none"
    /\ Len(tiles) = 1
    /\ Len(pending_tiles) = 1
    /\ pending_tiles[1][4] # "none"

-----------------------------------------------------------------------------
(* Specification of the result queue: a fixed camera, frames 5 s apart;      *)
(* results arrive just before apply_pending_tiles drains the queue, while it *)
(* creates the entities of the drained results, or just after it             *)

DrainFrames == 2
DrainResults == 2

FrameDrain == NewFrame({camera}, Deltas, DrainFrames)

DrainFetches == Fetches(DrainResults, BOOLEAN, InFlightEnds)

FetchCompleteDrain ==
    FetchCompletesAt(DrainFetches, {"apply_pending_tiles", "update_visible_tiles"})

NextDrain ==
    \/ ProcessTiles(NoFetches)
    \/ ApplyPendingTiles(DrainFetches)
    \/ UpdateVisibleTiles
    \/ CleanupOldTiles
    \/ AutoDetectZoomLevel(NoFetches)
    \/ FetchCompleteDrain
    \/ FrameDrain

SpecDrain == InitEvict /\ [][NextDrain]_vars

\* the threshold the recency rule states for a tile: 50 for an overlay tile,
\* 30 for an ordinary tile, whatever its zoom level. It is the rule's reading,
\* not the program's: update_visible_tiles applies the 30 only to entities
\* whose zoom is not PERSISTENT_ISLAND_ZOOM_LEVEL (see UpdateVisibleTiles)
C15_StatedThreshold(c) ==
    IF c.island THEN ISLAND_VISIBLE_DISTANCE ELSE TILE_VISIBLE_DISTANCE

\* C15: recency update: after update_visible_tiles ran with a camera, every
\* active tile nearer to the camera than its threshold (50 for an overlay
\* tile, 30 for an ordinary tile), whatever its zoom level, has last_used = now,
\* and every other tile keeps its last_used.
C15_RecencyUpdate ==
    [][(obs'.op = "update_visible_tiles" /\ camera.present) =>
          \A e \in DOMAIN coords :
              coords'[e].last_used =
                  IF WithinDistance(camera, coords[e], C15_StatedThreshold(coords[e]))
                  THEN now ELSE coords[e].last_used]_vars

-----------------------------------------------------------------------------
(* Specification of the sweep throttle: a fixed camera, frames 20 ms, 3 s,   *)
(* 4.98 s or 5.05 s apart, so that several ticks fall within the tolerance   *)
(* after a multiple of 5 s and others fall outside it; 5.05 s as an f32      *)
(* leaves a remainder just above the f32 nearest to 0.05                     *)

ThrottleFrames == 3

ThrottleDeltas == {20, 3000, 4980, 5050}

FrameThrottle == NewFrame({camera}, ThrottleDeltas, ThrottleFrames)

NextThrottle == SystemStep(NoFetches) \/ FetchCompleteEvict \/ FrameThrottle

SpecThrottle == InitEvict /\ [][NextThrottle]_vars

\* the 5-second interval of accumulated time that tt lies in
SweepInterval(tt) == F32Floor(tt) \div (CLEANUP_PERIOD \div 1000)

\* C16: sweep throttle: each 5-second interval of accumulated time contains
\* exactly one tick in which the sweep body runs; in particular the sweep never
\* runs in two consecutive ticks of the same interval (total_time is the
\* accumulated time of the previous tick, total_time' that of this tick;
\* before the first tick of a run there is no previous tick).
C16_SweepOncePerInterval ==
    [][(/\ obs'.op = "cleanup_old_tiles"
        /\ obs'.swept
        /\ frame > 0
        /\ ~SweepThrottled(total_time))
            => SweepInterval(total_time') # SweepInterval(total_time)]_vars

\* the systems that query the camera and return when there is none
CameraSystems == {"process_tiles", "update_visible_tiles", "auto_detect_zoom_level"}

\* the five systems of a tick
TickSystems == CameraSystems \cup {"apply_pending_tiles", "cleanup_old_tiles"}

\* what a tick works on: the loaded-set, the result queue, the active tiles
\* and their last_used, the zoom level and the fetches in flight
TickState == <<loaded_tiles, pending_tiles, tiles, coords, current_zoom, inflight>>

\* C17 as stated: in a tick without a camera none of the five systems changes
\* anything: nothing dispatched, no result applied, no last_used updated, no
\* tile evicted, the loaded-set not pruned, the zoom unchanged.
C17_AsStated ==
    [][(~camera.present /\ obs'.op \in TickSystems) => UNCHANGED TickState]_vars

\* C17: in a tick without a camera the three systems that query the camera
\* (scheduler, recency update, zoom controller) change nothing: nothing is
\* dispatched, no last_used is updated, the zoom and the loaded-set stay as
\* they are; apply_pending_tiles and cleanup_old_tiles do not query the camera.
C17_CameraSystemsSkip ==
    [][(~camera.present /\ obs'.op \in CameraSystems) => UNCHANGED TickState]_vars

\* the recency update has been skipped for want of a camera while a tile
\* that an earlier frame created is active
C17_Witness ==
    /\ ~camera.present
    /\ obs.op = "update_visible_tiles"
    /\ tiles # <<>>
    /\ \E e \in DOMAIN coords : coords[e].last_used < now

-----------------------------------------------------------------------------
(* Specification of the reprojection: the overlay index holds one key        *)
(* (x, PyramidMax - x) for every x up to PyramidMax and the current zoom is  *)
(* one of 13..17, so that the scheduler reprojects every such key over 0 to  *)
(* 4 levels                                                                  *)

PyramidMax == 15
PyramidFrames == 1

PyramidIslands == {<<<<x, PyramidMax - x>>>> : x \in 0..PyramidMax}
PyramidTables == {<<<<10, z>>>> : z \in 13..17}

InitPyramid ==
    InitWith(PyramidIslands, PyramidTables, {Cam(5, 60, 5, Down)}) /\ order = FileOrder

FramePyramid == NewFrame({camera}, Deltas, PyramidFrames)

NextPyramid == SystemStep(NoFetches) \/ FetchCompleteEvict \/ FramePyramid

SpecPyramid == InitPyramid /\ [][NextPyramid]_vars

\* C18: reprojection round trip: an overlay key (x, y) reprojected d levels
\* coarser, to the current zoom, and back d levels finer gives a block
\* [ (x >> d) << d , ((x >> d) << d) + 2^d - 1 ] in x and likewise in y that
\* contains (x, y).
C18_RoundTrip ==
    current_zoom <= PERSISTENT_ISLAND_ZOOM_LEVEL =>
        \A i \in 1..Len(persistent_islands) :
            LET d == PERSISTENT_ISLAND_ZOOM_LEVEL - current_zoom
                coarse == IslandScaled(persistent_islands[i], d)
                block == IslandBlock(coarse, d)
            IN  /\ InSeq(persistent_islands[i], block)
                /\ Len(block) = Pow2(d) * Pow2(d)
                /\ \A j \in 1..Len(block) :
                       /\ block[j][1] >= Shl(coarse[1], d)
                       /\ block[j][1] <= Shl(coarse[1], d) + Pow2(d) - 1
                       /\ block[j][2] >= Shl(coarse[2], d)
                       /\ block[j][2] <= Shl(coarse[2], d) + Pow2(d) - 1

\* the scheduler has reprojected the overlay key (13, 2) three levels
\* coarser, to (1, 0); the block starts at (8, 0), not at the key
C18_Witness ==
    /\ obs.op = "process_tiles"
    /\ current_zoom = 14
    /\ persistent_islands = <<<<13, 2>>>>
    /\ IslandScaled(persistent_islands[1], 3) = <<1, 0>>
    /\ IslandBlock(<<1, 0>>, 3)[1] = <<8, 0>>

\* an overlay key at the overlay zoom
IsOverlayKey(key) ==
    /\ key[3] = PERSISTENT_ISLAND_ZOOM_LEVEL
    /\ \E i \in 1..Len(persistent_islands) : persistent_islands[i] = <<key[1], key[2]>>

\* C19: loaded-set prune: after a sweep the loaded-set is the prior loaded-set
\* restricted to the keys that are in the active-tile list left by the sweep
\* or are overlay keys at the overlay zoom; every other key, a key dispatched
\* and not yet applied included, is dropped, and an overlay key is kept even
\* without an active tile.
C19_LoadedSetPrune ==
    [][(obs'.op = "cleanup_old_tiles" /\ obs'.swept) =>
          loaded_tiles' =
              SelectSeq(loaded_tiles,
                        LAMBDA k : \/ \E j \in 1..Len(tiles') : TileKeys(tiles')[j] = k
                                   \/ IsOverlayKey(k))]_vars

\* a sweep has kept the key of an active tile and an overlay key that has no
\* active tile, and has dropped a key whose fetch is still in flight
C19_Witness ==
    /\ obs.op = "cleanup_old_tiles" /\ obs.swept
    /\ \E i \in 1..Len(loaded_tiles) :
          IsOverlayKey(loaded_tiles[i]) /\ ~HasActive(loaded_tiles[i], tiles)
    /\ \E i \in 1..Len(loaded_tiles) : HasActive(loaded_tiles[i], tiles)
    /\ \E i \in 1..Len(inflight) : ~InSeq(inflight[i], loaded_tiles)

-----------------------------------------------------------------------------
(* Specification of the overlay-corresponding timeout: current zoom 16, the  *)
(* camera above tile (2, 3), which is the overlay key (4, 6) one level       *)
(* coarser; frames 5 s or 50 s apart                                         *)

CorrFrames == 2

CorrTables == {<<<<10, 16>>>>}
CorrCameras == {Cam(5, 60, 7, Down)}
CorrDeltas == {5000, 50000}

InitCorr == InitWith(Islands, CorrTables, CorrCameras) /\ order = FileOrder

FrameCorr == NewFrame({camera}, CorrDeltas, CorrFrames)

NextCorr == SystemStep(NoFetches) \/ FetchCompleteEvict \/ FrameCorr

SpecCorr == InitCorr /\ [][NextCorr]_vars

\* an active tile at a zoom other than the overlay zoom whose key corresponds
\* to an entry of the overlay index
CorrespondingKey(x, y, z) ==
    is_island_corresponding_tile(x, y, z, persistent_islands)

\* C20: overlay-corresponding timeout: a sweep removes a tile at a non-overlay
\* zoom whose key corresponds to an overlay index entry exactly when it has
\* been unused for more than 90 s, whether or not the overlay entry's own tile
\* is active.
C20_CorrespondingTimeout ==
    (obs.op = "cleanup_old_tiles" /\ obs.swept) =>
        /\ \A i \in 1..Len(obs.removed) :
              CorrespondingKey(obs.removed[i].key[1], obs.removed[i].key[2],
                               obs.removed[i].key[3]) =>
                  F32Gt(obs.removed[i].age, F32Literal(PERSISTENT_ISLAND_TIMEOUT \div 2))
        /\ \A e \in DOMAIN coords :
              CorrespondingKey(coords[e].x, coords[e].y, coords[e].zoom) =>
                  ~F32Gt(TileAge(coords[e], now), F32Literal(PERSISTENT_ISLAND_TIMEOUT \div 2))

-----------------------------------------------------------------------------
(* Specification of the camera guard: current zoom 16, every frame with or   *)
(* without a camera, frames 5 s apart                                        *)

GuardFrames == 2

GuardCameras == {Cam(5, 60, 5, Down), NoCamera}

InitGuard == InitWith(Islands, CorrTables, GuardCameras) /\ order = FileOrder

FrameGuard == NewFrame(GuardCameras, Deltas, GuardFrames)

NextGuard == SystemStep(NoFetches) \/ FetchCompleteEvict \/ FrameGuard

SpecGuard == InitGuard /\ [][NextGuard]_vars

-----------------------------------------------------------------------------
(* Classification, retirement and preload                                    *)

\* whether the sweep would give a tile with this key more than the plain
\* timeout, with the island entities now alive
SweepOverlayRetention(x, y, z) ==
    SweepTimeout([x |-> x, y |-> y, zoom |-> z], coords) > TILE_TIMEOUT

\* C21: overlay classification agrees across call sites: for every candidate
\* key at the current zoom, the scheduler flags it as an island tile (halved
\* distance) exactly when the application stage classifies it as exact or
\* corresponding, and exactly when the sweep gives it overlay retention.
C21_ClassificationAgrees ==
    (obs.op = "process_tiles" /\ camera.present) =>
        \E sorted \in {process_tiles(camera, NoFetches).sorted} :
            \A i \in 1..Len(sorted) :
                /\ sorted[i].island = Corresponds(sorted[i].x, sorted[i].y, current_zoom)
                /\ Corresponds(sorted[i].x, sorted[i].y, current_zoom)
                       = SweepOverlayRetention(sorted[i].x, sorted[i].y, current_zoom)

\* the zoom of the first table entry (min_height, zoom) with h >= min_height + 1,
\* or the current zoom when no entry matches
CandidateZoom(h, table, cur) ==
    IF FirstThreshold(h, table) = 0 THEN cur ELSE table[FirstThreshold(h, table)][2]

\* C22 as stated: when the candidate zoom is coarser (numerically lower) than
\* the current zoom, the zoom controller keeps the current zoom for a height in
\* [min_height + 1, min_height + 3).
C22_AsStated ==
    [][(/\ obs'.op = "auto_detect_zoom_level" /\ camera.present
        /\ CandidateZoom(camera.y, height_thresholds, current_zoom) < current_zoom
        /\ camera.y < MinHeightForZoom(camera.y, height_thresholds) + ZOOM_IN_GUARD)
            => current_zoom' = current_zoom]_vars

\* C22: the guard of the zoom controller is on the switch to a finer
\* (numerically higher) zoom: such a candidate is committed only if
\* h >= min_height + 3 and the current zoom is kept for h in [min_height + 1,
\* min_height + 3); a coarser (numerically lower) candidate is committed at
\* once, from h >= min_height + 1.
C22_GuardOnFinerZoom ==
    [][(obs'.op = "auto_detect_zoom_level" /\ camera.present) =>
          \E cand \in {CandidateZoom(camera.y, height_thresholds, current_zoom)} :
              /\ cand < current_zoom => current_zoom' = cand
              /\ cand > current_zoom =>
                    current_zoom' =
                        (IF camera.y >= MinHeightForZoom(camera.y, height_thresholds)
                                            + ZOOM_IN_GUARD
                         THEN cand ELSE current_zoom)
              /\ cand = current_zoom => current_zoom' = current_zoom]_vars

\* the controller has switched from zoom 12 to the coarser zoom 10 at height
\* 101, less than 3 above the threshold 100
C22_Witness ==
    /\ height_thresholds = ZoomTable
    /\ obs.op = "auto_detect_zoom_level" /\ obs.zoomed
    /\ current_zoom = 10
    /\ camera.y = 101
    /\ camera.y < MinHeightForZoom(camera.y, height_thresholds) + ZOOM_IN_GUARD

-----------------------------------------------------------------------------
(* Specification of the zoom change: the table [(100, 12), (50, 14)], the    *)
(* camera at height 60 or 101 above world x = 5 or x = 144 (tile 0 or tile   *)
(* 18 at zoom 14), so that a zoom change meets tiles of the new zoom and of  *)
(* other zooms, near and far                                                 *)

RetireFrames == 2
RetireResults == 2

RetireTable == <<<<100, 12>>, <<50, 14>>>>
RetireCameras == {Cam(5, 60, 5, Down), Cam(5, 101, 5, Down), Cam(144, 60, 5, Down)}

InitRetire ==
    /\ InitWith(Islands, {RetireTable}, {Cam(5, 60, 5, Down)})
    /\ current_zoom = 14
    /\ order = FileOrder

FrameRetire == NewFrame(RetireCameras, Deltas, RetireFrames)

\* results arrive at the start of a frame or just before apply_pending_tiles
FetchCompleteRetire ==
    FetchCompletesAt(Fetches(RetireResults, {TRUE}, InFlightEnds), {"process_tiles", "apply_pending_tiles"})

NextRetire == SystemStep(NoFetches) \/ FetchCompleteRetire \/ FrameRetire

SpecRetire == InitRetire /\ [][NextRetire]_vars

\* whether key k, reprojected to zoom n, is farther than factor * visible_range(n)
\* from the camera tile at zoom n on some axis
FartherThanAt(k, n, factor) ==
    LET center == world_to_tile_coords(camera.x, camera.z, n)
    IN  \/ Abs(ScaleToZoom(k[1], k[3], n) - center[1]) > factor * visible_range(n)
        \/ Abs(ScaleToZoom(k[2], k[3], n) - center[2]) > factor * visible_range(n)

\* the same for the zoom the controller has just set
FartherThan(k, factor) == FartherThanAt(k, current_zoom, factor)

\* C23, the removal the claim requires: after a zoom change to zoom N no
\* non-overlay tile is left in the active-tile list whose reprojected position
\* is farther than 4 * range from the new camera tile on some axis or whose
\* zoom differs from N by more than 2 levels.
C23_FarTilesRetired ==
    (obs.op = "auto_detect_zoom_level" /\ obs.zoomed) =>
        \A j \in 1..Len(tiles) :
            \/ is_exact_island(tiles[j][1], tiles[j][2], tiles[j][3], persistent_islands)
            \/ ~(\/ FartherThan(TileKeys(tiles)[j], 4)
                 \/ Abs(tiles[j][3] - current_zoom) > 2)

\* the keys the loaded-set holds when the zoom-change prune starts: those it
\* held before the invocation and those the preload of the invocation added
KeysBeforePrune(ld, log) ==
    {ld[i] : i \in 1..Len(ld)} \cup {log[i].key : i \in 1..Len(log)}

\* C24: zoom-change prune of the loaded-set: on a zoom change to zoom N a key
\* stays in the loaded-set if and only if it is an overlay key, or its
\* reprojected position is within 5 * range of the new camera tile on both
\* axes and its zoom is within 2 levels of N.
C24_ZoomPrune ==
    [][(obs'.op = "auto_detect_zoom_level" /\ obs'.zoomed) =>
          \A k \in KeysBeforePrune(loaded_tiles, obs'.log) :
              InSeq(k, loaded_tiles') <=>
                  \/ IsOverlayKey(k)
                  \/ (/\ ~FartherThanAt(k, current_zoom', 5)
                      /\ Abs(k[3] - current_zoom') <= 2)]_vars

-----------------------------------------------------------------------------
(* Specification of index-based removal: the table and the start of the      *)
(* zoom-change specification, the camera above tile 0 at height 60 or 101,   *)
(* frames 50 s apart, so that both the sweep and the zoom change remove      *)
(* tiles, up to two in one pass                                              *)

RemovalFrames == 2

RemovalCameras == {Cam(5, 60, 5, Down), Cam(5, 101, 5, Down)}
RemovalDeltas == {50000}

FrameRemoval == NewFrame(RemovalCameras, RemovalDeltas, RemovalFrames)

NextRemoval == SystemStep(NoFetches) \/ FetchCompleteRetire \/ FrameRemoval

SpecRemoval == InitRetire /\ [][NextRemoval]_vars

\* the entities a pass selected for removal
SelectedEntities(removed) == {removed[i].entity : i \in 1..Len(removed)}

\* the list ts without the entries at the given indices, the rest in order
WithoutIndices(ts, idxs) ==
    LET keep == SelectSeq([j \in 1..Len(ts) |-> j],
                          LAMBDA j : \A i \in 1..Len(idxs) : idxs[i] # j)
    IN  [n \in 1..Len(keep) |-> ts[keep[n]]]

\* C25: index-based removal is exact and in range: in a sweep and in a
\* zoom-change retirement the indices the pass removes at, in the order it
\* takes them, go from the highest to the lowest, each lies within the list as
\* the earlier removals left it, and they are the positions of exactly the
\* entries of the entities selected for removal; afterwards the active-tile
\* list is the prior list without the entries at those indices, in the same
\* order, no entry of a selected entity is left and the selected entities are
\* despawned.
C25_ExactRemoval ==
    [][(\/ (obs'.op = "cleanup_old_tiles" /\ obs'.swept)
        \/ (obs'.op = "auto_detect_zoom_level" /\ obs'.zoomed)) =>
          /\ \A i \in 1..(Len(obs'.indices) - 1) : obs'.indices[i] > obs'.indices[i + 1]
          /\ \A i \in 1..Len(obs'.indices) :
                 obs'.indices[i] >= 1 /\ obs'.indices[i] <= Len(tiles) - (i - 1)
          /\ {tiles[obs'.indices[i]][4] : i \in 1..Len(obs'.indices)} =
                 SelectedEntities(obs'.removed)
          /\ tiles' = WithoutIndices(tiles, obs'.indices)
          /\ \A j \in 1..Len(tiles') : tiles'[j][4] \notin SelectedEntities(obs'.removed)
          /\ DOMAIN coords' = DOMAIN coords \ SelectedEntities(obs'.removed)]_vars

\* a pass has removed two tiles at once
C25_Witness ==
    /\ obs.op \in {"cleanup_old_tiles", "auto_detect_zoom_level"}
    /\ Len(obs.removed) = 2
    /\ Len(obs.indices) = 2
    /\ obs.removed[1].entity # obs.removed[2].entity

\* C26: fetch completion touches only the result queue: a completing fetch,
\* successful or failed, appends exactly one entry (its key with an image or
\* with None) to the result queue and leaves the loaded-set, the active tiles,
\* the current zoom and the elapsed-time counter as they are; the key of a
\* failed fetch is not taken out of the loaded-set.
C26_CompletionOnlyQueues ==
    [][obs'.op = "fetch_complete" =>
          /\ Len(pending_tiles') = Len(pending_tiles) + 1
          /\ SubSeq(pending_tiles', 1, Len(pending_tiles)) = pending_tiles
          /\ \E r \in {pending_tiles'[Len(pending_tiles')]} :
                /\ InSeq(Key(r[1], r[2], r[3]), inflight)
                /\ r[4] \in {"image", "none"}
                /\ Len(inflight') = Len(inflight) - 1
          /\ UNCHANGED <<loaded_tiles, tiles, coords, current_zoom, total_time>>]_vars

\* a fetch has failed; its None result is queued and its key is still in the
\* loaded-set
C26_Witness ==
    /\ obs.op = "fetch_complete"
    /\ pending_tiles # <<>>
    /\ pending_tiles[Len(pending_tiles)][4] = "none"
    /\ InSeq(Key(pending_tiles[Len(pending_tiles)][1], pending_tiles[Len(pending_tiles)][2],
                 pending_tiles[Len(pending_tiles)][3]), loaded_tiles)
    /\ tiles # <<>>

-----------------------------------------------------------------------------
(* Specification of the result-queue lock. The five systems run tick after   *)
(* tick in the order of the source file, and the steps that touch            *)
(* pending_tiles are taken one lock operation at a time: the membership scan *)
(* of the scheduler and of the preload, the spawn of a fetch task, the drain *)
(* of the application stage and its creation of entities; a fetch task takes *)
(* the lock, pushes its result and lets the lock go. In this specification   *)
(* obs holds the lock owner and the position of the main loop and of every   *)
(* fetch task.                                                               *)

LockTicks == 2
LockResults == 2

LockCamera == Cam(5, 60, 5, Down)

\* the frame times of this specification, in ms: the first tick has delta 0
\* and runs the sweep, the later ticks are throttled
LockDeltas == {1000}

\* the candidates the budgeted dispatch loop visits in a tick, nearest first:
\* tiles_to_load after the sort, for the camera and the zoom of this
\* specification, which never change
LockKeys ==
    LET cands == SortByDistance(
                     tiles_to_load(PERSISTENT_ISLAND_ZOOM_LEVEL - 1,
                         world_to_tile_coords(LockCamera.x, LockCamera.z,
                                              PERSISTENT_ISLAND_ZOOM_LEVEL - 1),
                         <<>>, LockCamera),
                     PERSISTENT_ISLAND_ZOOM_LEVEL - 1)
    IN  [i \in 1..Len(cands) |->
            Key(cands[i].x, cands[i].y, PERSISTENT_ISLAND_ZOOM_LEVEL - 1)]

\* the keys the preload loops of auto_detect_zoom_level visit, in order
LockPreloadKeys ==
    LET new_zoom == TargetZoom(camera.y, height_thresholds, current_zoom)
        min_h == MinHeightForZoom(camera.y, height_thresholds)
    IN  PreloadKeys(camera, potential_zoom_levels(camera.y, min_h, current_zoom, new_zoom),
                    current_zoom, new_zoom)

\* op: the last step; lock: "free", "main" or "task"; loop: the dispatch loop
\* the main loop is in or was in last, "current" (process_tiles) or "preload"
\* (auto_detect_zoom_level); at, k: where the main loop is and the key of the
\* loop it is at; keys: the keys that loop visits, in order (tiles_to_load
\* after the sort, or the keys of the preload loops); n: concurrent_loads;
\* drained: the local vector of apply_pending_tiles; taskpc: per fetch in
\* flight, "running" or "holding"; ended: the loads that have ended
LockObs(op, lock, loop, at, k, keys, n, drained, taskpc, ended) ==
    [op |-> op, lock |-> lock, loop |-> loop, at |-> at, k |-> k, keys |-> keys,
     n |-> n, drained |-> drained, taskpc |-> taskpc, ended |-> ended]

\* Mutex::lock returns when no other guard is alive; it is not reentrant
LockFree == obs.lock = "free"

InitLock ==
    /\ loaded_tiles = <<>>
    /\ pending_tiles = <<>>
    /\ tiles = <<>>
    /\ coords = <<>>
    /\ inflight = <<>>
    /\ total_time = F32Zero
    /\ now = 0
    /\ delta = 0
    /\ ran = 0
    /\ frame = 0
    /\ order = FileOrder
    /\ persistent_islands = <<>>
    /\ height_thresholds \in CorrTables
    /\ current_zoom = PERSISTENT_ISLAND_ZOOM_LEVEL - 1
    /\ camera = LockCamera
    /\ obs = LockObs("init", "free", "current", "check", 1, LockKeys, 0, <<>>, <<>>, 0)

LockRest == UNCHANGED <<height_thresholds, persistent_islands, camera, order>>

\* what the steps of the dispatch loops and of the fetch tasks leave alone
LockTimeRest == UNCHANGED <<current_zoom, total_time, now, delta, ran, frame>>

\* where the main loop goes after a dispatch loop: process_tiles returns and
\* apply_pending_tiles drains, or the preload is over and the zoom controller
\* goes on to the zoom change
AfterLoop == IF obs.loop = "current" THEN "drain" ELSE "zoom"

\* the first key from obs.k on that is not in the loaded-set, Len + 1 if none
LockNextKey ==
    IF \E i \in obs.k..Len(obs.keys) : ~InSeq(obs.keys[i], loaded_tiles)
    THEN CHOOSE i \in obs.k..Len(obs.keys) :
             /\ ~InSeq(obs.keys[i], loaded_tiles)
             /\ \A j \in obs.k..(i - 1) : InSeq(obs.keys[j], loaded_tiles)
    ELSE Len(obs.keys) + 1

\* if concurrent_loads >= max_concurrent_loads { break; } in the budget loop,
\* and in both loops !osm_data.loaded_tiles.contains(&key) && ..: the lock is
\* taken only when the key is not in the loaded-set. The loop runs on over
\* the keys of the loaded-set, which only the main loop reads and writes,
\* until it is over or needs the lock.
MainCheck ==
    /\ obs.at = "check"
    /\ IF \/ LockNextKey > Len(obs.keys)
          \/ (obs.loop = "current" /\ obs.n >= max_concurrent_loads(current_zoom))
       THEN obs' = [obs EXCEPT !.op = "check", !.at = AfterLoop]
       ELSE obs' = [obs EXCEPT !.op = "check", !.at = "scan", !.k = LockNextKey]
    /\ UNCHANGED <<loaded_tiles, pending_tiles, tiles, coords, inflight>>
    /\ LockTimeRest
    /\ LockRest

\* osm_data.pending_tiles.lock() of the membership scan
MainAcquireScan ==
    /\ obs.at = "scan" /\ LockFree
    /\ obs' = [obs EXCEPT !.op = "acquire_scan", !.lock = "main", !.at = "scanning"]
    /\ UNCHANGED <<loaded_tiles, pending_tiles, tiles, coords, inflight>>
    /\ LockTimeRest
    /\ LockRest

\* .iter().any(..), the guard dropped at the end of the condition
MainScan ==
    /\ obs.at = "scanning"
    /\ obs' = [obs EXCEPT !.op = "scan", !.lock = "free",
                          !.at = IF HasPending(obs.keys[obs.k], pending_tiles)
                                 THEN "check" ELSE "spawn",
                          !.k = IF HasPending(obs.keys[obs.k], pending_tiles)
                                THEN obs.k + 1 ELSE obs.k]
    /\ UNCHANGED <<loaded_tiles, pending_tiles, tiles, coords, inflight>>
    /\ LockTimeRest
    /\ LockRest

\* loaded_tiles.push(key); tokio_runtime.0.spawn(..), and in the budget loop
\* concurrent_loads += 1
MainSpawn ==
    /\ obs.at = "spawn"
    /\ loaded_tiles' = Append(loaded_tiles, obs.keys[obs.k])
    /\ inflight' = Append(inflight, obs.keys[obs.k])
    /\ obs' = [obs EXCEPT !.op = "spawn", !.at = "check", !.k = obs.k + 1,
                          !.n = IF obs.loop = "current" THEN obs.n + 1 ELSE obs.n,
                          !.taskpc = Append(obs.taskpc, "running")]
    /\ UNCHANGED <<pending_tiles, tiles, coords>>
    /\ LockTimeRest
    /\ LockRest

\* let mut pending = osm_data.pending_tiles.lock()
MainAcquireDrain ==
    /\ obs.at = "drain" /\ LockFree
    /\ obs' = [obs EXCEPT !.op = "acquire_drain", !.lock = "main", !.at = "draining"]
    /\ UNCHANGED <<loaded_tiles, pending_tiles, tiles, coords, inflight>>
    /\ LockTimeRest
    /\ LockRest

\* variant: the guard is kept until the entities have been created
MainDrain_KeepLock ==
    /\ obs.at = "draining"
    /\ pending_tiles' = <<>>
    /\ obs' = [obs EXCEPT !.op = "drain", !.drained = pending_tiles,
                          !.at = IF pending_tiles = <<>> THEN "update" ELSE "create"]
    /\ UNCHANGED <<loaded_tiles, tiles, coords, inflight>>
    /\ LockTimeRest
    /\ LockRest

\* pending.drain(..).collect(); drop(pending)
MainDrain ==
    /\ obs.at = "draining"
    /\ pending_tiles' = <<>>
    /\ obs' = [obs EXCEPT !.op = "drain", !.lock = "free", !.drained = pending_tiles,
                          !.at = IF pending_tiles = <<>> THEN "update" ELSE "create"]
    /\ UNCHANGED <<loaded_tiles, tiles, coords, inflight>>
    /\ LockTimeRest
    /\ LockRest

\* one pass of the loop over the drained results; after the last one
\* apply_pending_tiles returns
MainCreate ==
    /\ obs.at = "create"
    /\ \E r \in {ApplyLoop(<<Head(obs.drained)>>, 1, [tiles |-> tiles, coords |-> coords])} :
          /\ tiles' = r.tiles
          /\ coords' = r.coords
    /\ obs' = [obs EXCEPT !.op = "create", !.drained = Tail(obs.drained),
                          !.at = IF Tail(obs.drained) = <<>> THEN "update" ELSE "create"]
    /\ UNCHANGED <<loaded_tiles, pending_tiles, inflight>>
    /\ LockTimeRest
    /\ LockRest

\* update_visible_tiles: it takes no lock
MainUpdateVisibleTiles ==
    /\ obs.at = "update"
    /\ coords' = IF camera.present THEN update_visible_tiles(camera, coords) ELSE coords
    /\ obs' = [obs EXCEPT !.op = "update_visible_tiles", !.at = "cleanup"]
    /\ UNCHANGED <<loaded_tiles, pending_tiles, tiles, inflight>>
    /\ LockTimeRest
    /\ LockRest

\* cleanup_old_tiles: it takes no lock; after it the zoom controller starts
\* with its preload loops
MainCleanupOldTiles ==
    /\ obs.at = "cleanup"
    /\ \E secs \in {Secs(delta)} :
       \E tt \in {F32Add(total_time, secs)} :
          /\ total_time' = tt
          /\ IF SweepThrottled(tt)
             THEN UNCHANGED <<tiles, coords, loaded_tiles>>
             ELSE \E r \in {cleanup_old_tiles(now)} :
                      /\ tiles' = r.tiles
                      /\ coords' = r.coords
                      /\ loaded_tiles' = r.loaded
    /\ obs' = [obs EXCEPT !.op = "cleanup_old_tiles", !.loop = "preload",
                          !.at = IF camera.present THEN "check" ELSE "frame_end",
                          !.k = 1, !.keys = LockPreloadKeys]
    /\ UNCHANGED <<pending_tiles, inflight, current_zoom, now, delta, ran, frame>>
    /\ LockRest

\* auto_detect_zoom_level after its preload loops: if new_zoom !=
\* osm_data.current_zoom the zoom change, without the lock
MainZoomChange ==
    /\ obs.at = "zoom"
    /\ \E new_zoom \in {TargetZoom(camera.y, height_thresholds, current_zoom)} :
          /\ current_zoom' = new_zoom
          /\ IF new_zoom # current_zoom
             THEN \E r \in {zoom_change(camera, new_zoom, loaded_tiles)} :
                      /\ tiles' = r.tiles
                      /\ coords' = r.coords
                      /\ loaded_tiles' = r.loaded
             ELSE UNCHANGED <<tiles, coords, loaded_tiles>>
    /\ obs' = [obs EXCEPT !.op = "zoom_change", !.at = "frame_end"]
    /\ UNCHANGED <<pending_tiles, inflight, total_time, now, delta, ran, frame>>
    /\ LockRest

\* the next tick starts with process_tiles and concurrent_loads = 0; after
\* the last tick of the behaviour the main loop stops
MainNewFrame ==
    /\ obs.at = "frame_end"
    /\ IF frame + 1 < LockTicks
       THEN /\ frame' = frame + 1
            /\ \E dt \in LockDeltas : delta' = dt /\ now' = now + dt
            /\ obs' = [obs EXCEPT !.op = "new_frame", !.loop = "current",
                                  !.at = "check", !.k = 1, !.keys = LockKeys, !.n = 0]
       ELSE /\ UNCHANGED <<frame, delta, now>>
            /\ obs' = [obs EXCEPT !.op = "new_frame", !.at = "done"]
    /\ UNCHANGED <<loaded_tiles, pending_tiles, tiles, coords, inflight,
                   current_zoom, total_time, ran>>
    /\ LockRest

\* the tasks whose load may end now: the loads end in the order of their
\* dispatch, and at most LockResults of them end
LockEnding ==
    IF obs.ended < LockResults
    THEN {i \in 1..Len(inflight) : i = 1}
    ELSE {}

\* pending_tiles.lock() in a fetch task whose load has ended
TaskAcquire ==
    /\ LockFree
    /\ \E i \in LockEnding :
          /\ obs.taskpc[i] = "running"
          /\ obs' = [obs EXCEPT !.op = "task_acquire", !.lock = "task",
                                !.taskpc = [obs.taskpc EXCEPT ![i] = "holding"],
                                !.ended = obs.ended + 1]
    /\ UNCHANGED <<loaded_tiles, pending_tiles, tiles, coords, inflight>>
    /\ LockTimeRest
    /\ LockRest

\* .push((x, y, z, Some(image))) or (.., None), the guard dropped after it
TaskAppend ==
    /\ \E i \in 1..Len(inflight), ok \in BOOLEAN :
          /\ obs.taskpc[i] = "holding"
          /\ pending_tiles' = PushResult(pending_tiles, inflight[i], ok)
          /\ inflight' = RemoveAt(inflight, i)
          /\ obs' = [obs EXCEPT !.op = "task_append", !.lock = "free",
                                !.taskpc = RemoveAt(obs.taskpc, i)]
    /\ UNCHANGED <<loaded_tiles, tiles, coords>>
    /\ LockTimeRest
    /\ LockRest

NextLock ==
    \/ MainCheck \/ MainAcquireScan \/ MainScan \/ MainSpawn
    \/ MainAcquireDrain \/ MainDrain \/ MainCreate
    \/ MainUpdateVisibleTiles \/ MainCleanupOldTiles \/ MainZoomChange \/ MainNewFrame
    \/ TaskAcquire \/ TaskAppend

\* the main loop runs its systems every tick and the runtime runs every task:
\* a step that stays possible is taken
SpecLock == InitLock /\ [][NextLock]_vars /\ WF_vars(NextLock)


\* the tasks that hold the lock
LockHolders == {i \in 1..Len(obs.taskpc) : obs.taskpc[i] = "holding"}

\* the main loop holds the lock exactly during a scan or a drain, a task
\* exactly during its append, and never both
LockHeldOnlyInSection ==
    /\ (obs.lock = "main") = (obs.at \in {"scanning", "draining"})
    /\ (obs.lock = "task") = (LockHolders # {})
    /\ Cardinality(LockHolders) <= 1
    /\ Len(obs.taskpc) = Len(inflight)

\* some step can be taken unless the last tick is over and every task left
\* is still loading
LockNoDeadlock ==
    \/ obs.at = "done" /\ LockHolders = {}
    \/ ENABLED NextLock

\* the main loop is at a lock() while a fetch task holds the lock
LockMainWaits == obs.at \in {"scan", "drain"} /\ obs.lock = "task"

\* C27: the result-queue lock is held only for one append, one drain or one
\* membership scan: never by the main loop while it creates entities or
\* spawns tasks, never acquired by its holder, by a task only for its append;
\* no interleaving deadlocks, and a side that waits for the lock waits for
\* one critical section of the other: the step that follows the wait of the
\* main loop is the append that frees the lock, the step that follows the
\* wait of a task is the scan or the drain that frees it, and a held lock is
\* always freed
C27_LockDiscipline ==
    /\ []LockHeldOnlyInSection
    /\ []LockNoDeadlock
    /\ [][LockMainWaits /\ obs'.op = "task_append" => obs'.lock = "free"]_vars
    /\ [][obs.lock = "main" => obs'.op \in {"scan", "drain"} /\ obs'.lock = "free"]_vars
    /\ (obs.lock # "free" ~> obs.lock = "free")
    /\ (LockMainWaits ~> obs.lock = "main")

\* the main loop is at the lock() of its drain while a fetch task holds the
\* lock for its append, and an earlier result is already active
C27_Witness ==
    /\ obs.at = "drain" /\ obs.lock = "task"
    /\ tiles # <<>>


-----------------------------------------------------------------------------
(* Specification of the predictive preload. The zoom controller and the      *)
(* application stage run in every frame over a height table whose two zoom   *)
(* levels are the lowest and the highest zoom, so that the neighbouring zoom *)
(* is met below, above and at both limits.                                   *)

PreloadFrames == 2
PreloadResults == 1

PreloadTable == <<<<100, 1>>, <<50, 19>>>>
PreloadCameras == {Cam(5, h, 5, Down) : h \in {49, 52, 60, 101}}
PreloadOrder == <<"auto_detect_zoom_level", "apply_pending_tiles">>

InitPreload ==
    /\ loaded_tiles = <<>>
    /\ pending_tiles = <<>>
    /\ tiles = <<>>
    /\ coords = <<>>
    /\ inflight = <<>>
    /\ total_time = F32Zero
    /\ now = 0
    /\ delta = 0
    /\ ran = 0
    /\ frame = 0
    /\ obs = NoObs("init")
    /\ order = PreloadOrder
    /\ persistent_islands \in Islands
    /\ height_thresholds = PreloadTable
    /\ current_zoom \in {MIN_ZOOM_LEVEL, MAX_ZOOM_LEVEL}
    /\ camera \in PreloadCameras

FramePreload == NewFrame(PreloadCameras, Deltas, PreloadFrames)

FetchCompletePreload ==
    FetchCompletesAt(Fetches(PreloadResults, {TRUE}, InFlightEnds), {"auto_detect_zoom_level"})

NextPreload ==
    \/ AutoDetectZoomLevel(NoFetches)
    \/ ApplyPendingTiles(NoFetches)
    \/ FetchCompletePreload
    \/ FramePreload

SpecPreload == InitPreload /\ [][NextPreload]_vars

\* the key at the given offsets of the camera tile at zoom n, as the preload
\* loop computes it
BlockKey(n, dx, dy) ==
    Key(Max(world_to_tile_coords(camera.x, camera.z, n)[1] + dx, 0),
        Max(world_to_tile_coords(camera.x, camera.z, n)[2] + dy, 0), n)

\* C28: an invocation of auto_detect_zoom_level that leaves the zoom alone
\* dispatches only preloads, all at one zoom next to the current one and
\* within the zoom limits, never at the current zoom, only keys of the 5x5
\* block around the camera tile at that zoom, only keys that were neither in
\* the loaded-set nor in the result queue, each once; and it dispatches every
\* such key of the block, up to all 25
C28_SteadyPreload ==
    [][obs'.op = "auto_detect_zoom_level" /\ current_zoom' = current_zoom =>
        LET log == obs'.log
            n == log[1].key[3]
        IN  /\ Len(log) <= 25
            /\ \A i \in 1..Len(log) :
                  /\ log[i].site = "preload"
                  /\ log[i].key[3] = n
                  /\ ~InSeq(log[i].key, loaded_tiles)
                  /\ ~HasPending(log[i].key, pending_tiles)
                  /\ \E dx \in -2..2, dy \in -2..2 : log[i].key = BlockKey(n, dx, dy)
                  /\ \A j \in 1..Len(log) : log[j].key = log[i].key => j = i
            /\ log # <<>> =>
                  /\ n \in {current_zoom - 1, current_zoom + 1}
                  /\ n >= MIN_ZOOM_LEVEL /\ n <= MAX_ZOOM_LEVEL
                  /\ \A dx \in -2..2, dy \in -2..2 :
                        \/ InSeq(BlockKey(n, dx, dy), loaded_tiles)
                        \/ HasPending(BlockKey(n, dx, dy), pending_tiles)
                        \/ \E i \in 1..Len(log) : log[i].key = BlockKey(n, dx, dy)
    ]_vars

\* a steady invocation at the highest zoom has preloaded all 25 keys of the
\* block one zoom below
C28_Witness ==
    /\ obs.op = "auto_detect_zoom_level" /\ ~obs.zoomed
    /\ current_zoom = MAX_ZOOM_LEVEL
    /\ Len(obs.log) = 25
    /\ obs.log[1].key[3] = MAX_ZOOM_LEVEL - 1


\* C29: every key that has an entry in the active-tile list is in the
\* loaded-set
C29_ActiveTracked ==
    \A i \in 1..Len(tiles) : InSeq(Key(tiles[i][1], tiles[i][2], tiles[i][3]), loaded_tiles)


\* C30: every key that the overlay-zoom fetch loop of process_tiles dispatches
\* has (x, y) equal to a key of the overlay index, whatever the current zoom
C30_OverlayDispatchGenuine ==
    obs.op = "process_tiles" =>
        \A i \in 1..Len(obs.log) :
            obs.log[i].site = "overlay" =>
                /\ obs.log[i].key[3] = PERSISTENT_ISLAND_ZOOM_LEVEL
                /\ InSeq(<<obs.log[i].key[1], obs.log[i].key[2]>>, persistent_islands)


\* a key whose x and y are tile indices of its zoom
ValidAddress(k) ==
    /\ k[1] >= 0 /\ k[1] <= max_tile_index(k[3])
    /\ k[2] >= 0 /\ k[2] <= max_tile_index(k[3])

\* C31: every key dispatched by any path (overlay-zoom fetch, current-zoom
\* scheduling, preload) has 0 <= x <= 2^zoom - 1 and 0 <= y <= 2^zoom - 1
C31_ValidAddresses ==
    \A i \in 1..Len(obs.log) : ValidAddress(obs.log[i].key)


\* C32: a tile that is within its visibility threshold of the camera on every
\* tick, update_visible_tiles running each tick with the camera present, is
\* never removed by the sweep (the camera of this specification never moves,
\* so a tile within the threshold now has been within it on every tick)
C32_VisibleNeverEvicted ==
    [][obs'.op = "cleanup_old_tiles" =>
          \A i \in 1..Len(obs'.removed) :
              ~WithinDistance(camera, coords[obs'.removed[i].entity],
                              C15_StatedThreshold(coords[obs'.removed[i].entity]))]_vars


-----------------------------------------------------------------------------
(* Specification of overlay persistence: the zoom changes between 16 and 17, *)
(* the camera moves between two places and frames are 5 s or 190 s apart, so *)
(* that an active overlay tile meets sweeps after its timeout, zoom changes  *)
(* away from it and back, and schedulers that would fetch it                 *)

OverlayFrames == 2
OverlayResults == 1

OverlayDeltas == {5000, 190000}
OverlayCameras == {Cam(5, 20, 5, Down), Cam(60, 60, 5, Down)}

InitOverlay == InitWith(Islands, Tables, {Cam(5, 20, 5, Down)}) /\ order = FileOrder

FrameOverlay == NewFrame(OverlayCameras, OverlayDeltas, OverlayFrames)

FetchCompleteOverlay ==
    FetchCompletesAt(Fetches(OverlayResults, BOOLEAN, InFlightEnds), {"apply_pending_tiles"})

NextOverlay == SystemStep(NoFetches) \/ FetchCompleteOverlay \/ FrameOverlay

SpecOverlay == InitOverlay /\ [][NextOverlay]_vars

\* C33: once an exact-overlay tile is active, no step (sweep, prune of the
\* loaded-set after a sweep, retirement and prune on a zoom change) removes
\* its entry of the active-tile list, its entity or its key of the
\* loaded-set, and no step dispatches its key again
C33_OverlayPersists ==
    [][\A i \in ExactOverlayTiles :
          /\ \E j \in 1..Len(tiles') : tiles'[j] = tiles[i]
          /\ tiles[i][4] \in DOMAIN coords'
          /\ InSeq(Key(tiles[i][1], tiles[i][2], tiles[i][3]), loaded_tiles')
          /\ \A j \in 1..Len(obs'.log) :
                obs'.log[j].key # Key(tiles[i][1], tiles[i][2], tiles[i][3])]_vars

\* an overlay tile is active, unused for more than 180 s, after a zoom change
\* away from the overlay zoom with the camera far from it
C33_Witness ==
    /\ obs.op = "auto_detect_zoom_level" /\ obs.zoomed
    /\ current_zoom # PERSISTENT_ISLAND_ZOOM_LEVEL
    /\ camera.x = 60
    /\ \E i \in ExactOverlayTiles :
          /\ F32Gt(TileAge(coords[tiles[i][4]], now), F32Literal(PERSISTENT_ISLAND_TIMEOUT))
          /\ InSeq(Key(tiles[i][1], tiles[i][2], tiles[i][3]), loaded_tiles)


-----------------------------------------------------------------------------
(* Specification of the zoom controller at a constant height: the camera     *)
(* never moves; the height tables are sorted, unsorted and inverted; the     *)
(* starting zoom is a level of the table or another one                      *)

ChatterFrames == 2

ChatterTables == {<<<<100, 10>>, <<50, 12>>>>, <<<<50, 12>>, <<100, 10>>>>,
                  <<<<100, 12>>, <<50, 10>>>>, <<<<60, 14>>, <<50, 12>>, <<40, 16>>>>}
ChatterZooms == {10, 11, 12, 14, 16}
ChatterHeights == {30, 41, 43, 51, 52, 53, 61, 63, 101, 103}
ChatterCameras == {Cam(5, h, 5, Down) : h \in ChatterHeights}

InitChatter ==
    /\ loaded_tiles = <<>>
    /\ pending_tiles = <<>>
    /\ tiles = <<>>
    /\ coords = <<>>
    /\ inflight = <<>>
    /\ total_time = F32Zero
    /\ now = 0
    /\ delta = 0
    /\ ran = 0
    /\ frame = 0
    /\ obs = NoObs("init")
    /\ order = FileOrder
    /\ persistent_islands \in Islands
    /\ height_thresholds \in ChatterTables
    /\ current_zoom \in ChatterZooms
    /\ camera \in ChatterCameras

FrameChatter == NewFrame({camera}, Deltas, ChatterFrames)

NextChatter == SystemStep(NoFetches) \/ FrameChatter

SpecChatter == InitChatter /\ [][NextChatter]_vars

\* C34: at a constant camera height, for any height table and any starting
\* zoom, the zoom controller changes the current zoom at most once: only its
\* first invocation can change it, and the zoom is constant from then on
C34_NoChatter ==
    [][current_zoom' # current_zoom =>
          /\ obs'.op = "auto_detect_zoom_level"
          /\ frame = 0]_vars

\* the second invocation at the same height has left the zoom that the first
\* one had set two levels or more away from the starting zoom (whose preload
\* is still in flight)
C34_Witness ==
    /\ obs.op = "auto_detect_zoom_level" /\ ~obs.zoomed
    /\ frame = 1
    /\ \E i \in 1..Len(inflight) :
          inflight[i][3] - current_zoom >= 2 \/ current_zoom - inflight[i][3] >= 2


-----------------------------------------------------------------------------
(* Specification of the scheduler under a stationary camera, with fairness.  *)
(* The camera and the zoom never change; every fetch completes with an image *)
(* before the main loop takes the result-queue lock again; all ticks of a    *)
(* behaviour have the same length, 5 s or 50 s, and time is the program's:   *)
(* elapsed time grows tick by tick and total_time is the f32 sum of the      *)
(* deltas. A behaviour has StarveFrames ticks after the first.               *)

StarveResults == 200
StarveFrames == 9

StarveDeltas == {5000, 50000}
StarveCamera == Cam(5, 60, 5, Down)
StarveZoom == 16

InitStarve ==
    /\ InitWith(Islands, Tables, {StarveCamera})
    /\ current_zoom = StarveZoom
    /\ order = FileOrder

StarveFetches == PromptFetches(StarveResults, {TRUE})

\* the next tick, of the length of the behaviour's earlier ticks
FrameStarve ==
    /\ NewFrame({StarveCamera}, StarveDeltas, StarveFrames)
    /\ delta = 0 \/ delta' = delta

NextStarve == SystemStep(StarveFetches) \/ FrameStarve

\* the main loop's position moves: a system of the tick has run, or the next
\* tick has started; nothing moves it after the last system of the last tick
ScheduleAdvances ==
    /\ ran < Len(order) \/ frame < StarveFrames
    /\ \E r \in 0..Len(order) : ran' = r /\ ran' # ran

\* the main loop keeps running: a system whose turn it is runs, and the next
\* tick starts
SpecStarve == InitStarve /\ [][NextStarve]_vars /\ WF_ran(ScheduleAdvances)

\* the candidate keys of the scheduler window of the stationary camera that
\* survive the frustum discard
StarveWindow ==
    LET cands == tiles_to_load(StarveZoom,
                     world_to_tile_coords(StarveCamera.x, StarveCamera.z, StarveZoom),
                     <<>>, StarveCamera)
    IN  {Key(cands[i].x, cands[i].y, StarveZoom) : i \in 1..Len(cands)}

\* process_tiles has dispatched key k
DispatchedNow(k) ==
    obs.op = "process_tiles" /\ \E i \in 1..Len(obs.log) : obs.log[i].key = k

SiteKeys(log, site) ==
    LET sel == SelectSeq(log, LAMBDA l : l.site = site)
    IN  [i \in 1..Len(sel) |-> sel[i].key]

\* the candidates of an invocation, in priority order, that the budget loop
\* finds neither in the loaded-set nor in the result queue: not requested
\* before the invocation, not dispatched by its overlay-zoom loop, and met for
\* the first time
UnrequestedCandidates(sorted, zoom, ld, pend, overlay) ==
    LET key(i) == Key(sorted[i].x, sorted[i].y, zoom)
        idx == SelectSeq([i \in 1..Len(sorted) |-> i],
                   LAMBDA i : /\ ~AlreadyRequested(key(i), ld, pend)
                              /\ ~InSeq(key(i), overlay)
                              /\ \A j \in 1..(i - 1) : key(j) # key(i))
    IN  [j \in 1..Len(idx) |-> key(idx[j])]

\* an invocation dispatches, in priority order, exactly the first
\* max_concurrent_loads candidates that survive the frustum discard and are
\* neither in the loaded-set nor in the result queue (all of them if they are
\* fewer): a skipped key uses none of the budget
SkipsAreFree ==
    (obs'.op = "process_tiles" /\ camera.present) =>
        \E fresh \in {UnrequestedCandidates(process_tiles(camera, NoFetches).sorted, current_zoom,
                          loaded_tiles, pending_tiles, SiteKeys(obs'.log, "overlay"))} :
            SiteKeys(obs'.log, "current") =
                SubSeq(fresh, 1,
                       IF Len(fresh) < max_concurrent_loads(current_zoom)
                       THEN Len(fresh) ELSE max_concurrent_loads(current_zoom))

\* a sweep has evicted a tile, whose key leaves the loaded-set
SweepEvicted == obs.op = "cleanup_old_tiles" /\ obs.swept /\ Len(obs.removed) > 0

====
